---- MODULE Spec2Model ----
(***************************************************************************)
(* A model of the GDB Remote Serial Protocol client of openocd_agdi        *)
(* (src/src/gdb_client.rs): the transports, the packet codec, the binary   *)
(* escaper, the RSP command round trip and the flash operations.           *)
(*                                                                         *)
(* Bytes are the integers 0..255; a byte string is a sequence of bytes.    *)
(* One client runs one operation at a time; pc is its position inside      *)
(* send_cmd / read_packet, one action per transport call.                  *)
(***************************************************************************)
EXTENDS Integers, Sequences, FiniteSets, TLC

(* ------------------------------------------------------------------ *)
(* Bounds of the model                                                  *)
(* ------------------------------------------------------------------ *)

\* longest input handed to escape_binary on its own
MaxEsc == 3
\* longest data slice of arbitrary bytes handed to flash_write
MaxData == 2
\* longest data slice of counted bytes handed to flash_write
MaxLong == 9
\* largest chunk size handed to flash_write
MaxChunk == 5
\* most bytes an arbitrary peer sends before the '$' of its packet
MaxJunk == 1
\* longest payload an arbitrary peer sends
MaxPayload == 2
\* most memory elements of a memory-map document handed to the parser
MaxElems == 2
\* most segments with data the host supplies to one download
MaxSegs == 2
\* most vFlashWrite commands of one flash_write the model follows
MaxTurns == 4

(* ------------------------------------------------------------------ *)
(* Protocol bytes                                                       *)
(* ------------------------------------------------------------------ *)

Dollar == 36
Hash == 35
Star == 42
RBrace == 125
Plus == 43
Minus == 45
EByte == 69
PadByte == 255
FLASH_WORD == 4
W16 == 65536
AG_OK == 0
AG_NOACCESS == 1
WriteChunk == 256

OK == <<79, 75>>

\* "vFlashErase:", "vFlashWrite:", "vFlashDone", "m", ",", ":" and the
\* memory-map query, as ASCII
StrFlashErase == <<118, 70, 108, 97, 115, 104, 69, 114, 97, 115, 101, 58>>
StrFlashWrite == <<118, 70, 108, 97, 115, 104, 87, 114, 105, 116, 101, 58>>
StrFlashDone == <<118, 70, 108, 97, 115, 104, 68, 111, 110, 101>>
StrReadMem == <<109>>
StrComma == <<44>>
StrColon == <<58>>
StrQXfer == <<113, 88, 102, 101, 114, 58, 109, 101, 109, 111, 114, 121, 45,
              109, 97, 112, 58, 114, 101, 97, 100, 58, 58, 48, 44, 102, 102, 102>>
StrQSupported == <<113, 83, 117, 112, 112, 111, 114, 116, 101, 100>>

(* ------------------------------------------------------------------ *)
(* Pure functions                                                       *)
(* ------------------------------------------------------------------ *)

\* all sequences over S of length 0..n
SeqsUpTo(S, n) == UNION {[1..k -> S] : k \in 0..n}

\* b ^ 0x20 on a byte
Xor20(b) == IF (b \div 32) % 2 = 1 THEN b - 32 ELSE b + 32

\* the match arm b'#' | b'$' | b'*' | b'}'
IsSpecial(b) == b \in {Hash, Dollar, Star, RBrace}

\* an escape that pushes the byte itself after the '}'
EscapeByteNoXor(b) == IF IsSpecial(b) THEN <<RBrace, b>> ELSE <<b>>

\* an escape that pushes the '}' after the changed byte
EscapeByteSwapped(b) == IF IsSpecial(b) THEN <<Xor20(b), RBrace>> ELSE <<b>>

\* one iteration of escape_binary's loop: what is pushed for byte b
EscapeByte(b) == IF IsSpecial(b) THEN <<RBrace, Xor20(b)>> ELSE <<b>>

\* the pushes of the loop over data, in order: those for the first half of
\* data followed by those for the second half
RECURSIVE escape_binary(_)
escape_binary(data) ==
    IF data = <<>> THEN <<>>
    ELSE IF Len(data) = 1 THEN EscapeByte(data[1])
    ELSE LET h == Len(data) \div 2
         IN  escape_binary(SubSeq(data, 1, h)) \o escape_binary(SubSeq(data, h + 1, Len(data)))

\* data.iter().fold(0u8, |s, b| s.wrapping_add(*b)); the wrapping sum is
\* associative, and it is taken here over the two halves of data
RECURSIVE checksum(_)
checksum(data) ==
    IF data = <<>> THEN 0
    ELSE IF Len(data) = 1 THEN data[1] % 256
    ELSE LET h == Len(data) \div 2
         IN  (checksum(SubSeq(data, 1, h)) + checksum(SubSeq(data, h + 1, Len(data)))) % 256

\* one lowercase hexadecimal digit, as ASCII
HexDigit(n) == IF n < 10 THEN 48 + n ELSE 87 + n

\* format!("{:02x}", csum) for a u8
Hex2(c) == <<HexDigit(c \div 16), HexDigit(c % 16)>>

\* lowercase hexadecimal of a number below 2^16, no leading zeros, "0" for 0
RECURSIVE HexX(_)
HexX(n) == IF n < 16 THEN <<HexDigit(n)>> ELSE HexX(n \div 16) \o <<HexDigit(n % 16)>>

\* the four hexadecimal digits of a number below 2^16
Hex4(n) == Hex2(n \div 256) \o Hex2(n % 256)

\* A u32 is the pair <<high 16 bits, low 16 bits>>.
ToU32(n) == <<(n \div W16) % W16, n % W16>>

\* a + b without the reduction modulo 2^32, as <<carry, high, low>>
U32Sum(a, b) ==
    LET lo == a[2] + b[2]
        hi == a[1] + b[1] + (lo \div W16)
    IN  <<hi \div W16, hi % W16, lo % W16>>

\* a.wrapping_add(b)
U32Add(a, b) == <<U32Sum(a, b)[2], U32Sum(a, b)[3]>>

\* format!("{:x}", n) for a u32
HexU32(a) == IF a[1] = 0 THEN HexX(a[2]) ELSE HexX(a[1]) \o Hex4(a[2])

\* a send_cmd whose checksum leaves the binary argument out
BuildPacketPrefixSum(prefix, binary) ==
    <<Dollar>> \o prefix \o binary \o <<Hash>> \o Hex2(checksum(prefix))

\* the packet send_cmd builds from its prefix and binary argument
BuildPacket(prefix, binary) ==
    LET body == prefix \o binary
    IN  <<Dollar>> \o body \o <<Hash>> \o Hex2(checksum(body))

\* MockTransport::rsp_packet: a well-formed packet with the given payload
RspPacket(p) == <<Dollar>> \o p \o <<Hash>> \o Hex2(checksum(p))

\* String::from_utf8_lossy on bytes: a byte that is not ASCII and starts no
\* valid sequence becomes U+FFFD
Utf8Lossy(bytes) == [i \in 1..Len(bytes) |-> IF bytes[i] < 128 THEN bytes[i] ELSE 65533]

(* ------------------------------------------------------------------ *)
(* State                                                                *)
(* ------------------------------------------------------------------ *)

VARIABLES
    t_kind,        \* the transport behind the client: "Tcp", "Mock" or "Generic"
    t_connected,   \* TcpTransport.stream is Some / MockTransport.connected
    recv_buffer,   \* inbound bytes delivered by the peer and not yet read
    recv_eof,      \* the inbound stream has ended
    peer,          \* "Any": sends arbitrary bytes; "Script", "Target": answer each frame
    connected,     \* GdbClient.connected
    pc,            \* position of the running operation
    op,            \* the operation called last
    cmd,           \* send_cmd's arguments: [prefix, binary]
    pkt,           \* send_cmd's local pkt
    payload,       \* read_packet's local payload
    result,        \* what the operation returned: [tag, val]
    sent_packets,  \* what the transport sent since the call (MockTransport.sent_packets)
    rx,            \* bytes read from the transport by the current send_cmd
    t_calls,       \* transport connect/close calls made by the last connect/disconnect
    fw,            \* flash_erase's and flash_write's arguments, flash_write's locals
    fw_log,        \* the chunks flash_write handed to send_cmd since the call
    esc_in,        \* escape_binary's argument
    esc_out,       \* escape_binary's return value
    xml,           \* parse_flash_regions_from_xml's argument
    a_pc,          \* position of start_flash_load / do_flash_load_internal
    a_ret,         \* what the entry point returned: AG_OK, AG_NOACCESS, or none yet
    a_log,         \* progress reports, segment fetches, commands and returns so far
    a_pf,          \* the FlashParm pf points to
    a_wrote,       \* wrote_bytes
    a_block,       \* block_size
    a_fetched,     \* calls of get_flash_param made by the running download
    holder,        \* the thread that holds the mutex AGDI_INSTANCE, 0 for none
    p_callback,    \* Agdi.p_callback: "None" or "Some"
    th             \* each host thread: "out", "wait" (in lock()) or "in"

tvars == <<t_kind, t_connected, recv_buffer, recv_eof, peer>>
pvars == <<pc, op, cmd, pkt, payload, result>>
hvars == <<sent_packets, rx, t_calls>>
fvars == <<fw, fw_log>>
evars == <<esc_in, esc_out>>
avars == <<a_pc, a_ret, a_log, a_pf, a_wrote, a_block, a_fetched>>
lvars == <<holder, th, p_callback>>
vars == <<t_kind, t_connected, recv_buffer, recv_eof, peer, connected, pc, op, cmd,
          pkt, payload, result, sent_packets, rx, t_calls, fw, fw_log, esc_in, esc_out,
          xml, a_pc, a_ret, a_log, a_pf, a_wrote, a_block, a_fetched, holder, th>>

Ok(v) == [tag |-> "Ok", val |-> v]
Err(t, v) == [tag |-> t, val |-> v]
NoResult == [tag |-> "None", val |-> <<>>]
NoCmd == [prefix |-> <<>>, binary |-> <<>>]
NoFw == [addr |-> <<0, 0>>, len |-> <<0, 0>>, data |-> <<>>, chunk |-> 0, offset |-> 0,
         block |-> <<>>, waddr |-> <<0, 0>>]

(* ------------------------------------------------------------------ *)
(* Inputs                                                               *)
(* ------------------------------------------------------------------ *)

\* bytes an arbitrary peer sends: '+', '-', '$', '#', 'O'
PeerBytes == {Plus, Minus, Dollar, Hash, 79}

\* what a scripted peer answers to one frame: nothing, a rejection, a stray
\* byte ('O', '#'), and acknowledged packets with payload OK, E01, empty and OKK
Responses ==
    { <<>>,
      <<Minus>>,
      <<79>>,
      <<Hash>>,
      <<Plus>> \o RspPacket(OK),
      <<Plus>> \o RspPacket(<<EByte, 48, 49>>),
      <<Plus>> \o RspPacket(<<>>),
      <<Plus>> \o RspPacket(<<79, 75, 75>>) }

\* what a target answers to the memory-map query: an error code, or 'l' and
\* a document: the one of the test, one flash element without children, one
\* self-closing flash element, one whose start is no number, one the reader
\* fails on, and one whose blocksize is 300 (hexadecimal); to every other
\* command: OK, an error code, or nothing
TargetAnswers(data) ==
    IF data = BuildPacket(StrQXfer, <<>>)
    THEN { <<Plus>> \o RspPacket(<<108>> \o d) :
             d \in { <<1, 3, 6, 8, 48, 120, 52, 48, 48, 9, 5, 3, 2>>,
                      <<1, 6, 5, 2>>,
                      <<1, 7, 2>>,
                      <<1, 11, 5, 2>>,
                      <<1, 13>>,
                      <<1, 6, 8, 51, 48, 48, 9, 5, 2>> } }
         \cup {<<Plus>> \o RspPacket(<<EByte, 48, 49>>)}
    ELSE { <<Plus>> \o RspPacket(OK), <<Plus>> \o RspPacket(<<EByte, 48, 49>>), <<>> }

\* bytes of the inputs of escape_binary: the four special bytes, their
\* escaped forms' second bytes, and plain bytes
EscBytes == {Hash, Dollar, Star, RBrace, 3, 93, 65, PadByte}
EscInputs == SeqsUpTo(EscBytes, MaxEsc)

\* flash data: the special bytes and a plain one
DataBytes == {Hash, Dollar, Star, RBrace, 65}
\* 'A', 'B', 'C', ...: n bytes that differ from each other
Counted(n) == [i \in 1..n |-> 64 + i]
FlashData == SeqsUpTo(DataBytes, MaxData) \cup {Counted(n) : n \in 0..MaxLong}
ChunkSizes == 0..MaxChunk
\* start addresses (u32): 0x08000000, and 0xfffffffe at the top of the address space
Addrs == {<<2048, 0>>, <<W16 - 1, W16 - 2>>}
\* lengths (u32): 0, 0x1000 and 0x12345
Lens == {<<0, 0>>, <<0, 4096>>, <<1, 9029>>}

\* commands handed to send_cmd directly
Prefixes == {StrQSupported}
Binaries == {<<>>, <<RBrace, 3, 65>>}

(* ------------------------------------------------------------------ *)
(* Transport                                                            *)
(* ------------------------------------------------------------------ *)

\* GdbTransport::send: the results it can have
SendOutcomes ==
    IF ~t_connected THEN {"NotConnected"}
    ELSE IF t_kind = "Mock" THEN {"Ok"}
    ELSE {"Ok", "Io"}

\* what the peer does on receiving data: a scripted peer answers a frame
PeerAnswers(data) ==
    IF data = <<>> \/ data[1] # Dollar THEN {<<>>}
    ELSE IF peer = "Script" THEN Responses
    ELSE IF peer = "Target" THEN TargetAnswers(data)
    ELSE {<<>>}

\* the bytes an arbitrary peer may send next, within the bounds
PeerNext ==
    IF pc = "dollar" /\ Len(rx) > MaxJunk THEN {Dollar}
    ELSE IF pc = "payload" /\ Len(payload) >= MaxPayload THEN {Hash}
    ELSE PeerBytes

\* GdbTransport::recv_exact with a buffer of n bytes: the results it can have,
\* with the bytes read, the inbound bytes left and whether the stream ended
RecvOutcomes(n) ==
    IF ~t_connected THEN
        {[tag |-> "NotConnected", bytes |-> <<>>, buf |-> recv_buffer, eof |-> recv_eof]}
    ELSE IF Len(recv_buffer) >= n THEN
        {[tag |-> "Ok", bytes |-> SubSeq(recv_buffer, 1, n),
          buf |-> SubSeq(recv_buffer, n + 1, Len(recv_buffer)), eof |-> recv_eof]}
    ELSE IF peer # "Any" \/ recv_eof THEN
        {[tag |-> "Eof", bytes |-> <<>>,
          buf |-> IF t_kind = "Mock" THEN recv_buffer ELSE <<>>, eof |-> recv_eof]}
    ELSE
        {[tag |-> "Ok", bytes |-> bs, buf |-> <<>>, eof |-> FALSE] :
            bs \in [1..n -> PeerNext]}
        \cup
        {[tag |-> "Eof", bytes |-> <<>>, buf |-> left, eof |-> TRUE] :
            left \in IF t_kind = "Mock" THEN SeqsUpTo(PeerNext, n - 1) ELSE {<<>>}}

(* ------------------------------------------------------------------ *)
(* GdbClient: connect, disconnect                                       *)
(* ------------------------------------------------------------------ *)

\* GdbTransport::connect: the results it can have
ConnectOutcomes == IF t_kind = "Mock" THEN {"Ok"} ELSE {"Ok", "Io"}

\* GdbTransport::close: the results it can have
CloseOutcomes == IF t_kind = "Generic" THEN {"Ok", "Io"} ELSE {"Ok"}

\* every call starts from the idle client
Called(name) ==
    /\ pc = "idle"
    /\ op' = name
    /\ UNCHANGED <<sent_packets, rx, payload>>
    /\ UNCHANGED <<avars, lvars>>

\* a call that runs no send_cmd leaves no trace of one
NoCommand ==
    /\ pc' = "done"
    /\ cmd' = NoCmd
    /\ pkt' = <<>>
    /\ fw' = NoFw
    /\ fw_log' = <<>>

\* a call that runs neither escape_binary nor the parser on its own
NoEscape == esc_in' = <<>> /\ esc_out' = <<>> /\ xml' = <<>>

\* a connect without the early return
ConnectAlwaysCallsTransport == TRUE

\* does GdbClient::connect call the transport
ConnectCallsTransport == ~connected

Connect ==
    /\ Called("connect")
    /\ NoCommand
    /\ NoEscape
    /\ UNCHANGED <<t_kind, peer>>
    /\ IF ~ConnectCallsTransport
       THEN /\ result' = Ok(<<>>)
            /\ t_calls' = 0
            /\ UNCHANGED <<t_connected, recv_buffer, recv_eof, connected>>
       ELSE \E r \in ConnectOutcomes :
            /\ t_calls' = 1
            /\ IF r = "Ok"
               THEN /\ t_connected' = TRUE
                    /\ recv_buffer' = IF t_kind = "Mock" THEN recv_buffer ELSE <<>>
                    /\ recv_eof' = IF t_kind = "Mock" THEN recv_eof ELSE FALSE
                    /\ connected' = TRUE
                    /\ result' = Ok(<<>>)
               ELSE /\ result' = Err(r, <<>>)
                    /\ UNCHANGED <<t_connected, recv_buffer, recv_eof, connected>>

\* a disconnect that leaves the flag as it was
DisconnectFlagKept(r) == connected

\* the client's flag after the transport's close returned r
DisconnectFlag(r) == IF r = "Ok" THEN FALSE ELSE connected

Disconnect ==
    /\ Called("disconnect")
    /\ NoCommand
    /\ NoEscape
    /\ UNCHANGED <<t_kind, peer, recv_buffer, recv_eof>>
    /\ IF ~connected
       THEN /\ result' = Ok(<<>>)
            /\ t_calls' = 0
            /\ UNCHANGED <<t_connected, connected>>
       ELSE \E r \in CloseOutcomes :
            /\ t_calls' = 1
            /\ t_connected' = IF r = "Ok" THEN FALSE ELSE t_connected
            /\ connected' = DisconnectFlag(r)
            /\ result' = IF r = "Ok" THEN Ok(<<>>) ELSE Err(r, <<>>)

(* ------------------------------------------------------------------ *)
(* flash_write's loop                                                   *)
(* ------------------------------------------------------------------ *)

Min(a, b) == IF a < b THEN a ELSE b

\* a padding computed without the test of block.len() % FLASH_WORD
PadLenUntested(n) == FLASH_WORD - (n % FLASH_WORD)

\* the padding appended to a block of n bytes
PadLen(n) == IF n % FLASH_WORD # 0 THEN FLASH_WORD - (n % FLASH_WORD) ELSE 0

\* data[offset..min(offset + chunk, data.len())] and its padding
FwBlock(data, offset, chunk) ==
    LET raw == SubSeq(data, offset + 1, Min(offset + chunk, Len(data)))
    IN  raw \o [i \in 1..PadLen(Len(raw)) |-> PadByte]

\* offset += block.len()
FwAdvance(offset, block) == offset + Len(block)

\* the u32 addition addr + offset as u32: it overflows at 2^32, where a build
\* with overflow checks panics and one without wraps
AddOutcomes(a, offset) ==
    IF U32Sum(a, ToU32(offset))[1] # 0 THEN {"panic", "wrap"} ELSE {"ok"}

\* the body of send_cmd's argument list for one chunk
FwPrefix(waddr) == StrFlashWrite \o HexU32(waddr) \o StrColon

\* one turn of `while offset < data.len()`, up to the call of send_cmd:
\* [pc, result, cmd, fw, fw_log]; how is the outcome of the address addition
FwLoop(f, log, offset, how) ==
    IF offset < Len(f.data) THEN
        IF how = "panic" THEN
            [pc |-> "panicked", result |-> Err("Panic", <<>>), cmd |-> NoCmd,
             fw |-> [f EXCEPT !.offset = offset], fw_log |-> log]
        ELSE
            LET block == FwBlock(f.data, offset, f.chunk)
                waddr == U32Add(f.addr, ToU32(offset))
                n     == Min(offset + f.chunk, Len(f.data)) - offset
            IN  [pc |-> "send", result |-> NoResult,
                 cmd |-> [prefix |-> FwPrefix(waddr), binary |-> escape_binary(block)],
                 fw |-> [f EXCEPT !.offset = offset, !.block = block, !.waddr = waddr],
                 fw_log |-> Append(log, [addr |-> waddr, block |-> block,
                                         from |-> offset, n |-> n])]
    ELSE
        [pc |-> "done", result |-> Ok(<<>>), cmd |-> NoCmd,
         fw |-> [f EXCEPT !.offset = offset], fw_log |-> log]

(* ------------------------------------------------------------------ *)
(* The memory-map parser                                                *)
(* ------------------------------------------------------------------ *)

\* A document is a byte string. Its markup is written one byte per tag: the
\* byte k in 1..Len(Markup) stands for the text of the tag Markup[k], which is
\* the event Reader::read_event_into returns for it; every other byte is
\* character data. Attribute values are byte strings.

StrFlash == <<102, 108, 97, 115, 104>>
StrRam == <<114, 97, 109>>
StrBlocksize == <<98, 108, 111, 99, 107, 115, 105, 122, 101>>
StrSecure == <<115, 101, 99, 117, 114, 101>>
\* "0x00000000", "0x08000000", "0x08008000", "0x20000000", "0x8000", "0x5000"
Str0 == <<48, 120, 48, 48, 48, 48, 48, 48, 48, 48>>
Str8M == <<48, 120, 48, 56, 48, 48, 48, 48, 48, 48>>
Str8M8 == <<48, 120, 48, 56, 48, 48, 56, 48, 48, 48>>
Str20M == <<48, 120, 50, 48, 48, 48, 48, 48, 48, 48>>
Str8000 == <<48, 120, 56, 48, 48, 48>>
Str5000 == <<48, 120, 53, 48, 48, 48>>
\* " 8010000 " and "0X400": no prefix and blanks, and the capital prefix
StrBare == <<32, 56, 48, 49, 48, 48, 48, 48, 32>>
StrCap400 == <<48, 88, 52, 48, 48>>
\* "zz" and "0x": not hexadecimal numbers
StrZZ == <<122, 122>>
Str0x == <<48, 120>>
\* "0x400" and "10" as character data
Txt400 == <<48, 120, 52, 48, 48>>
Txt10 == <<49, 48>>

Attr(key, value) == [key |-> key, value |-> value]
Tag(k, name, attrs) == [k |-> k, name |-> name, attrs |-> attrs, txt |-> <<>>]
Text(txt) == [k |-> "Text", name |-> "", attrs |-> <<>>, txt |-> txt]
MemoryAttrs(type, start, length) ==
    <<Attr("type", type), Attr("start", start), Attr("length", length)>>

Markup ==
    << Tag("Start", "memory-map", <<>>),
       Tag("End", "memory-map", <<>>),
       Tag("Empty", "memory", MemoryAttrs(StrRam, Str0, Str8M)),
       Tag("Start", "memory", MemoryAttrs(StrRam, Str20M, Str5000)),
       Tag("End", "memory", <<>>),
       Tag("Start", "memory", MemoryAttrs(StrFlash, Str8M, Str8000)),
       Tag("Empty", "memory", MemoryAttrs(StrFlash, Str8M8, Str8000)),
       Tag("Start", "property", <<Attr("name", StrBlocksize)>>),
       Tag("End", "property", <<>>),
       Tag("Start", "property", <<Attr("name", StrSecure)>>),
       Tag("Start", "memory", MemoryAttrs(StrFlash, StrZZ, Str8000)),
       Tag("Start", "memory", MemoryAttrs(StrRam, Str0, Str0x)),
       Tag("Err", "", <<>>),
       Tag("Start", "memory",
           <<Attr("start", StrBare), Attr("length", StrCap400), Attr("type", StrFlash)>>) >>

IsMarkup(b) == b \in 1..Len(Markup)

\* char::is_whitespace on ASCII
IsSpace(c) == c \in {9, 10, 11, 12, 13, 32}

RECURSIVE TrimStart(_)
TrimStart(s) == IF s # <<>> /\ IsSpace(Head(s)) THEN TrimStart(Tail(s)) ELSE s

RECURSIVE TrimEnd(_)
TrimEnd(s) ==
    IF s # <<>> /\ IsSpace(s[Len(s)]) THEN TrimEnd(SubSeq(s, 1, Len(s) - 1)) ELSE s

\* str::trim
Trim(s) == TrimEnd(TrimStart(s))

\* the length of the run of character data at the head of doc
RECURSIVE TextRun(_)
TextRun(doc) ==
    IF doc = <<>> \/ IsMarkup(Head(doc)) THEN 0 ELSE 1 + TextRun(Tail(doc))

\* the events Reader::read_event_into returns for doc, up to Eof, with
\* trim_text(true): character data is trimmed and left out when empty
RECURSIVE ReadEvents(_)
ReadEvents(doc) ==
    IF doc = <<>> THEN <<>>
    ELSE IF IsMarkup(Head(doc)) THEN <<Markup[Head(doc)]>> \o ReadEvents(Tail(doc))
    ELSE LET n   == TextRun(doc)
             txt == Trim(SubSeq(doc, 1, n))
             rest == ReadEvents(SubSeq(doc, n + 1, Len(doc)))
         IN  IF txt = <<>> THEN rest ELSE <<Text(txt)>> \o rest

\* s.strip_prefix("0x").or_else(|| s.strip_prefix("0X")).unwrap_or(s)
StripHexPrefix(s) ==
    IF Len(s) >= 2 /\ s[1] = 48 /\ s[2] \in {120, 88} THEN SubSeq(s, 3, Len(s)) ELSE s

\* char::to_digit(16), -1 for None
ToDigit16(c) ==
    IF c \in 48..57 THEN c - 48
    ELSE IF c \in 97..102 THEN c - 87
    ELSE IF c \in 65..70 THEN c - 55
    ELSE -1

\* A u64 is the sequence of its hexadecimal digits' values, most significant
\* first, without leading zeros; 0 is the empty sequence.
RECURSIVE StripZeros(_)
StripZeros(ds) == IF ds # <<>> /\ Head(ds) = 0 THEN StripZeros(Tail(ds)) ELSE ds

ParseOk(v) == [ok |-> TRUE, val |-> v]
ParseErr == [ok |-> FALSE, val |-> <<>>]

\* u64::from_str_radix(s, 16): empty, a lone sign, a character that is no
\* digit and a value of 2^64 or more are errors; one leading '+' is taken
from_str_radix_16(s) ==
    IF s = <<>> THEN ParseErr
    ELSE IF s[1] \in {43, 45} /\ Len(s) = 1 THEN ParseErr
    ELSE LET digits == IF s[1] = 43 THEN Tail(s) ELSE s
             vals   == [i \in 1..Len(digits) |-> ToDigit16(digits[i])]
         IN  IF \E i \in 1..Len(vals) : vals[i] = -1 THEN ParseErr
             ELSE IF Len(StripZeros(vals)) > 16 THEN ParseErr
             ELSE ParseOk(StripZeros(vals))

parse_hex_u64(s) == from_str_radix_16(StripHexPrefix(Trim(s)))

\* the for loop over e.attributes() of a memory element, from the attribute
\* at index i on: acc is [start, length, is_flash, panic]; an unwrap() of a
\* failed parse panics
RECURSIVE MemoryAttributes(_, _, _)
MemoryAttributes(attrs, i, acc) ==
    IF i > Len(attrs) \/ acc.panic THEN acc
    ELSE LET a == attrs[i]
             h == parse_hex_u64(a.value)
         IN  MemoryAttributes(attrs, i + 1,
                CASE a.key = "type" -> [acc EXCEPT !.is_flash = (a.value = StrFlash)]
                  [] a.key = "start" ->
                        IF h.ok THEN [acc EXCEPT !.start = h.val]
                        ELSE [acc EXCEPT !.panic = TRUE]
                  [] a.key = "length" ->
                        IF h.ok THEN [acc EXCEPT !.length = h.val]
                        ELSE [acc EXCEPT !.panic = TRUE]
                  [] OTHER -> acc)

FlashRegion(start, length) == [start |-> start, length |-> length, blocksize |-> <<>>]

\* an Option is the empty sequence (None) or a sequence of one value (Some)
Some(v) == <<v>>

\* the loop of parse_flash_regions_from_xml over the events left, with its
\* locals cur and regions
RECURSIVE ParseLoop(_, _, _)
ParseLoop(evs, cur, regions) ==
    IF evs = <<>> THEN [tag |-> "Ok", val |-> regions]
    ELSE LET e    == Head(evs)
             rest == Tail(evs)
         IN  CASE e.k = "Start" /\ e.name = "memory" ->
                    LET a == MemoryAttributes(e.attrs, 1,
                                 [start |-> <<>>, length |-> <<>>, is_flash |-> FALSE,
                                  panic |-> FALSE])
                    IN  IF a.panic THEN [tag |-> "Panic", val |-> <<>>]
                        ELSE ParseLoop(rest,
                                       IF a.is_flash THEN Some(FlashRegion(a.start, a.length))
                                       ELSE cur,
                                       regions)
               [] e.k = "Text" ->
                    LET h == parse_hex_u64(e.txt)
                    IN  ParseLoop(rest,
                                  IF cur # <<>> /\ h.ok
                                  THEN Some([cur[1] EXCEPT !.blocksize = Some(h.val)])
                                  ELSE cur,
                                  regions)
               [] e.k = "End" /\ e.name = "memory" ->
                    IF cur # <<>> THEN ParseLoop(rest, <<>>, Append(regions, cur[1]))
                    ELSE ParseLoop(rest, cur, regions)
               [] e.k = "Err" -> [tag |-> "XmlError", val |-> <<>>]
               [] OTHER -> ParseLoop(rest, cur, regions)

parse_flash_regions_from_xml(doc) == ParseLoop(ReadEvents(doc), <<>>, <<>>)

(* ------------------------------------------------------------------ *)
(* What the callers of send_cmd do with its result                      *)
(* ------------------------------------------------------------------ *)

\* a comparison that takes every response starting with OK
NotOKStartsWith(resp) == Len(resp) < 2 \/ SubSeq(resp, 1, 2) # OK

\* resp != b"OK"
NotOK(resp) == resp # OK

\* resp.is_empty() || resp[0] == b'E'
QXferFailed(resp) == resp = <<>> \/ resp[1] = EByte

\* send_cmd returned Ok(p) to the operation op: [pc, result, cmd, fw, fw_log]
Return(p, how) ==
    LET done(r) == [pc |-> IF r.tag = "Panic" THEN "panicked" ELSE "done", result |-> r,
                    cmd |-> cmd, fw |-> fw, fw_log |-> fw_log]
    IN  CASE op = "send_cmd" -> done(Ok(p))
          [] op = "flash_erase" ->
                done(IF NotOK(p) THEN Err("EraseFailed", p) ELSE Ok(<<>>))
          [] op = "flash_write" ->
                IF NotOK(p) THEN done(Err("WriteFailed", fw.waddr))
                ELSE FwLoop(fw, fw_log, FwAdvance(fw.offset, fw.block), how)
          [] op = "flash_done" ->
                done(IF NotOK(p) THEN Err("FlashDoneFailed", <<>>) ELSE Ok(<<>>))
          [] op = "read_memory" -> done(Ok(Utf8Lossy(p)))
          [] op = "get_flash_info" ->
                done(IF QXferFailed(p) THEN Err("QXferFailed", <<>>)
                     ELSE parse_flash_regions_from_xml(Tail(p)))

\* the operation moves on as r says; a new send_cmd starts with its packet built
Apply(r) ==
    /\ pc' = r.pc
    /\ result' = r.result
    /\ cmd' = r.cmd
    /\ fw' = r.fw
    /\ fw_log' = r.fw_log
    /\ pkt' = IF r.pc = "send" THEN BuildPacket(r.cmd.prefix, r.cmd.binary) ELSE pkt
    /\ rx' = IF r.pc = "send" THEN <<>> ELSE rx
    /\ payload' = IF r.pc = "send" THEN <<>> ELSE payload

\* an error leaves send_cmd and, through `?`, every caller
Fail(e) ==
    /\ pc' = "done"
    /\ result' = e
    /\ UNCHANGED <<cmd, pkt, fw, fw_log>>

(* ------------------------------------------------------------------ *)
(* send_cmd and read_packet, one action per transport call              *)
(* ------------------------------------------------------------------ *)

\* a read_packet that takes the first byte after the acknowledgement for the '$'
IsStartAnyByte(b) == TRUE

\* recv_byte()? == b'$' in read_packet's first loop
IsStart(b) == b = Dollar

\* a read_packet that takes the first byte after the '$' for the '#'
IsEndAnyByte(b) == TRUE

\* b == b'#' in read_packet's second loop
IsEnd(b) == b = Hash

\* a match on the acknowledgement byte that reads on after a '-'
AckOutcomeIgnoresNack(b) ==
    IF b = Plus \/ b = Minus THEN "proceed" ELSE "UnexpectedAck"

\* the match on the acknowledgement byte
AckOutcome(b) ==
    IF b = Plus THEN "proceed"
    ELSE IF b = Minus THEN "NACK"
    ELSE "UnexpectedAck"

\* self.transport.send(&pkt)?
StepSend ==
    /\ pc = "send"
    /\ Len(fw_log) <= MaxTurns
    /\ \E s \in SendOutcomes :
        IF s = "Ok"
        THEN /\ sent_packets' = Append(sent_packets, pkt)
             /\ \E a \in PeerAnswers(pkt) : recv_buffer' = recv_buffer \o a
             /\ pc' = "ack"
             /\ UNCHANGED <<result, cmd, pkt, fw, fw_log>>
        ELSE /\ Fail(Err(s, <<>>))
             /\ UNCHANGED <<sent_packets, recv_buffer>>
    /\ UNCHANGED <<t_kind, t_connected, recv_eof, peer, connected, op, payload, rx,
                   t_calls, evars>>
    /\ UNCHANGED <<xml, avars, lvars>>

\* match self.recv_byte()? { b'+' .. b'-' .. b .. }
StepAck ==
    /\ pc = "ack"
    /\ \E r \in RecvOutcomes(1) :
        /\ recv_buffer' = r.buf
        /\ recv_eof' = r.eof
        /\ IF r.tag # "Ok"
           THEN Fail(Err(r.tag, <<>>)) /\ rx' = rx
           ELSE /\ rx' = rx \o r.bytes
                /\ LET a == AckOutcome(r.bytes[1])
                   IN  IF a = "proceed"
                       THEN pc' = "dollar" /\ UNCHANGED <<result, cmd, pkt, fw, fw_log>>
                       ELSE Fail(Err(a, IF a = "NACK" THEN <<>> ELSE r.bytes))
    /\ UNCHANGED <<t_kind, t_connected, peer, connected, op, payload, sent_packets,
                   t_calls, evars>>
    /\ UNCHANGED <<xml, avars, lvars>>

\* loop { if self.recv_byte()? == b'$' { break; } }
StepDollar ==
    /\ pc = "dollar"
    /\ \E r \in RecvOutcomes(1) :
        /\ recv_buffer' = r.buf
        /\ recv_eof' = r.eof
        /\ IF r.tag # "Ok"
           THEN Fail(Err(r.tag, <<>>)) /\ rx' = rx
           ELSE /\ rx' = rx \o r.bytes
                /\ pc' = IF IsStart(r.bytes[1]) THEN "payload" ELSE "dollar"
                /\ UNCHANGED <<result, cmd, pkt, fw, fw_log>>
    /\ UNCHANGED <<t_kind, t_connected, peer, connected, op, payload, sent_packets,
                   t_calls, evars>>
    /\ UNCHANGED <<xml, avars, lvars>>

\* loop { let b = self.recv_byte()?; if b == b'#' { break; } payload.push(b); }
StepPayload ==
    /\ pc = "payload"
    /\ \E r \in RecvOutcomes(1) :
        /\ recv_buffer' = r.buf
        /\ recv_eof' = r.eof
        /\ IF r.tag # "Ok"
           THEN Fail(Err(r.tag, <<>>)) /\ UNCHANGED <<rx, payload>>
           ELSE /\ rx' = rx \o r.bytes
                /\ IF IsEnd(r.bytes[1])
                   THEN pc' = "csum" /\ payload' = payload
                   ELSE pc' = "payload" /\ payload' = Append(payload, r.bytes[1])
                /\ UNCHANGED <<result, cmd, pkt, fw, fw_log>>
    /\ UNCHANGED <<t_kind, t_connected, peer, connected, op, sent_packets,
                   t_calls, evars>>
    /\ UNCHANGED <<xml, avars, lvars>>

\* self.transport.recv_exact(&mut checksum)? with checksum: [u8; 2]
StepCsum ==
    /\ pc = "csum"
    /\ \E r \in RecvOutcomes(2) :
        /\ recv_buffer' = r.buf
        /\ recv_eof' = r.eof
        /\ IF r.tag # "Ok"
           THEN Fail(Err(r.tag, <<>>)) /\ rx' = rx
           ELSE /\ rx' = rx \o r.bytes
                /\ pc' = "plus"
                /\ UNCHANGED <<result, cmd, pkt, fw, fw_log>>
    /\ UNCHANGED <<t_kind, t_connected, peer, connected, op, payload, sent_packets,
                   t_calls, evars>>
    /\ UNCHANGED <<xml, avars, lvars>>

\* self.transport.send(b"+")?; Ok(payload), and the caller's use of it
StepPlus ==
    /\ pc = "plus"
    /\ \E s \in SendOutcomes :
        IF s = "Ok"
        THEN /\ sent_packets' = Append(sent_packets, <<Plus>>)
             /\ \E how \in AddOutcomes(fw.addr, FwAdvance(fw.offset, fw.block)) :
                    Apply(Return(payload, how))
        ELSE /\ Fail(Err(s, <<>>))
             /\ UNCHANGED <<sent_packets, rx, payload>>
    /\ UNCHANGED <<tvars, connected, op, t_calls, evars>>
    /\ UNCHANGED <<xml, avars, lvars>>

(* ------------------------------------------------------------------ *)
(* The calls                                                            *)
(* ------------------------------------------------------------------ *)

\* a call that starts as r says: [pc, result, cmd, fw, fw_log]
Start(r) ==
    /\ pc' = r.pc
    /\ result' = r.result
    /\ cmd' = r.cmd
    /\ fw' = r.fw
    /\ fw_log' = r.fw_log
    /\ pkt' = IF r.pc = "send" THEN BuildPacket(r.cmd.prefix, r.cmd.binary) ELSE <<>>
    /\ t_calls' = 0
    /\ NoEscape
    /\ UNCHANGED <<tvars, connected>>

\* a call that is one send_cmd(prefix, binary)
Command(prefix, binary) ==
    [pc |-> "send", result |-> NoResult, cmd |-> [prefix |-> prefix, binary |-> binary],
     fw |-> NoFw, fw_log |-> <<>>]

CallSendCmd ==
    /\ Called("send_cmd")
    /\ \E prefix \in Prefixes, binary \in Binaries : Start(Command(prefix, binary))

\* format!("vFlashErase:{:x},{:x}", addr, len)
ErasePrefix(addr, len) == StrFlashErase \o HexU32(addr) \o StrComma \o HexU32(len)

\* flash_erase(addr, len) up to its send_cmd
EraseCommand(addr, len) ==
    [Command(ErasePrefix(addr, len), <<>>)
        EXCEPT !.fw = [NoFw EXCEPT !.addr = addr, !.len = len]]

CallFlashErase ==
    /\ Called("flash_erase")
    /\ \E addr \in Addrs, len \in Lens : Start(EraseCommand(addr, len))

\* flash_write(addr, data, chunk) up to its first send_cmd
WriteCommand(addr, data, chunk, how) ==
    FwLoop([NoFw EXCEPT !.addr = addr, !.data = data, !.chunk = chunk], <<>>, 0, how)

CallFlashWrite ==
    /\ Called("flash_write")
    /\ \E addr \in Addrs, data \in FlashData, chunk \in ChunkSizes :
        \E how \in AddOutcomes(addr, 0) : Start(WriteCommand(addr, data, chunk, how))

CallFlashDone ==
    /\ Called("flash_done")
    /\ Start(Command(StrFlashDone, <<>>))

\* format!("m{:x},{:x}", addr, len)
ReadMemPrefix(addr, len) == StrReadMem \o HexU32(addr) \o StrComma \o HexU32(len)

CallReadMemory ==
    /\ Called("read_memory")
    /\ \E addr \in Addrs, len \in Lens : Start(Command(ReadMemPrefix(addr, len), <<>>))

CallGetFlashInfo ==
    /\ Called("get_flash_info")
    /\ Start(Command(StrQXfer, <<>>))

\* escape_binary(d) on its own
CallEscape ==
    /\ Called("escape_binary")
    /\ NoCommand
    /\ result' = Ok(<<>>)
    /\ t_calls' = 0
    /\ \E d \in EscInputs : esc_in' = d /\ esc_out' = escape_binary(d)
    /\ UNCHANGED <<tvars, connected, xml>>

\* the elements of memory-map documents, in the bytes of the parser's
\* documents: <memory type="ram" .../>, <memory type="ram" ...></memory>,
\* a flash element with a blocksize property, one without children, a
\* self-closing one, one with another property, one with two properties, one
\* whose blocksize is "zz", flash and ram elements with an attribute that is
\* no number, a tag the reader fails on, a flash element whose numbers come
\* without the prefix 0x, and blanks between elements
Items ==
    { <<3>>,
      <<4, 5>>,
      <<6, 8>> \o Txt400 \o <<9, 5>>,
      <<6, 5>>,
      <<7>>,
      <<6, 10>> \o Txt10 \o <<9, 5>>,
      <<6, 8>> \o Txt400 \o <<9, 10>> \o Txt10 \o <<9, 5>>,
      <<6, 8>> \o StrZZ \o <<9, 5>>,
      <<11, 5>>,
      <<12, 5>>,
      <<13>>,
      <<14, 32, 5>>,
      <<32, 32>> }

RECURSIVE Concat(_)
Concat(ss) == IF ss = <<>> THEN <<>> ELSE Head(ss) \o Concat(Tail(ss))

\* <memory-map> elements </memory-map>
Docs == {<<1>> \o Concat(items) \o <<2>> : items \in SeqsUpTo(Items, MaxElems)}

\* parse_flash_regions_from_xml(d) on its own
CallParse ==
    /\ Called("parse_flash_regions_from_xml")
    /\ cmd' = NoCmd
    /\ pkt' = <<>>
    /\ fw' = NoFw
    /\ fw_log' = <<>>
    /\ t_calls' = 0
    /\ esc_in' = <<>> /\ esc_out' = <<>>
    /\ \E d \in Docs :
        /\ xml' = d
        /\ result' = parse_flash_regions_from_xml(d)
        /\ pc' = IF result'.tag = "Panic" THEN "panicked" ELSE "done"
    /\ UNCHANGED <<tvars, connected>>

(* ------------------------------------------------------------------ *)
(* Agdi                                                                 *)
(* ------------------------------------------------------------------ *)

\* the host threads that call the exported entry points
Threads == {1, 2}

NoSeg == [start |-> <<0, 0>>, data |-> <<>>, act_size |-> 0]

\* Agdi::new behind AGDI_INSTANCE, its mutex free, no thread in a call
InitAgdi ==
    /\ a_pc = "idle"
    /\ a_ret = "none"
    /\ a_log = <<>>
    /\ a_pf = NoSeg
    /\ a_wrote = 0
    /\ a_block = <<>>
    /\ a_fetched = 0
    /\ holder = 0
    /\ th = [t \in Threads |-> "out"]
    /\ p_callback = "None"

\* a FlashParm: start, the many bytes at image, and act_size
Seg(start, n, act) == [start |-> start, data |-> [i \in 1..n |-> 65], act_size |-> act]

\* what the host's callback supplies: 4 bytes of 8 at 0x08000000, 3 bytes of
\* 8 at 0x08000004, 4 bytes at 0x08010000, one byte more than a chunk, and
\* 4 bytes of a total of 0
Segments ==
    { Seg(<<2048, 0>>, 4, 8),
      Seg(<<2048, 4>>, 3, 8),
      Seg(<<2049, 0>>, 4, 8),
      Seg(<<2048, 0>>, WriteChunk + 1, WriteChunk + 1),
      Seg(<<2048, 0>>, 4, 0) }

\* get_flash_param: the FlashParm the host returns; the host ends the
\* download with one of many = 0. With no callback call_callback returns 0
\* and the FlashParm is read through a null pointer: whatever is read there
Fetchable == IF a_fetched < MaxSegs THEN Segments \cup {NoSeg} ELSE {NoSeg}

\* &mut *self.get_flash_param(..): the read through a null pointer may also
\* end the process
DerefOutcomes == IF p_callback = "None" THEN {"crash", "read"} ELSE {"read"}

\* the value of up to four hexadecimal digits
RECURSIVE NibblesValue(_)
NibblesValue(ds) ==
    IF ds = <<>> THEN 0
    ELSE NibblesValue(SubSeq(ds, 1, Len(ds) - 1)) * 16 + ds[Len(ds)]

\* v as u32 for a u64 v
LowU32(v) ==
    LET p == [i \in 1..8 |-> IF i + Len(v) > 8 THEN v[i + Len(v) - 8] ELSE 0]
    IN  <<NibblesValue(SubSeq(p, 1, 4)), NibblesValue(SubSeq(p, 5, 8))>>

\* a & b on 16 bits
RECURSIVE And16(_, _)
And16(a, b) ==
    IF a = 0 \/ b = 0 THEN 0
    ELSE (a % 2) * (b % 2) + 2 * And16(a \div 2, b \div 2)

\* a & b, !a and a.wrapping_sub(1) on u32
U32And(a, b) == <<And16(a[1], b[1]), And16(a[2], b[2])>>
U32Not(a) == <<W16 - 1 - a[1], W16 - 1 - a[2]>>
U32Dec(a) ==
    IF a[2] > 0 THEN <<a[1], a[2] - 1>>
    ELSE IF a[1] > 0 THEN <<a[1] - 1, W16 - 1>>
    ELSE <<W16 - 1, W16 - 1>>

\* u32::is_power_of_two
IsPowerOfTwo(a) == a # <<0, 0>> /\ U32And(a, U32Dec(a)) = <<0, 0>>

\* align_up's debug_assert and additions: a build with the checks panics
\* where one without wraps
AlignOutcomes(value, align) ==
    IF ~IsPowerOfTwo(align) \/ U32Sum(value, align)[1] # 0 THEN {"panic", "wrap"}
    ELSE {"ok"}

\* (value + align - 1) & !(align - 1)
align_up(value, align) == U32And(U32Dec(U32Add(value, align)), U32Not(U32Dec(align)))

\* flash_inf.blocksize.unwrap_or(1024)
BlockSize(region) == IF region.blocksize = <<>> THEN <<4, 0, 0>> ELSE region.blocksize[1]

\* wrote_bytes * 100 / pf.act_size: a division by zero panics; the segments
\* of the model are too short for wrote_bytes * 100 to reach 2^32
SetPosOutcomes(wrote, act) == IF act = 0 THEN {"panic"} ELSE {"ok"}
SetPosValue(wrote, act) == (wrote * 100) \div act

\* the entries of a_log: a progress report, a call of get_flash_param with
\* what it returned, a frame sent, and the return of a client call
LogEntry(e) ==
    [e |-> e, job |-> "", pos |-> 0, seg |-> NoSeg, frame |-> <<>>, res |-> NoResult,
     by |-> 0, host |-> FALSE]

\* call_callback: the host's function is called when one is installed
Invokes == p_callback = "Some"

LogReport(job, pos, t) ==
    [LogEntry("Report") EXCEPT !.job = job, !.pos = pos, !.by = t, !.host = Invokes]
LogFetch(seg, t) == [LogEntry("Fetch") EXCEPT !.seg = seg, !.by = t, !.host = Invokes]
LogCmd(frame, t) == [LogEntry("Cmd") EXCEPT !.frame = frame, !.by = t]
LogRet(name, res, t) == [LogEntry("Ret") EXCEPT !.job = name, !.res = res, !.by = t]

\* the frames of sent_packets as log entries
RECURSIVE LogCmds(_, _)
LogCmds(sent, t) ==
    IF sent = <<>> THEN <<>>
    ELSE IF Head(sent) = <<Plus>> THEN LogCmds(Tail(sent), t)
    ELSE <<LogCmd(Head(sent), t)>> \o LogCmds(Tail(sent), t)

\* the log when the running client call has returned
Logged == a_log \o LogCmds(sent_packets, holder) \o <<LogRet(op, result, holder)>>

\* a lock() that returns whoever holds the mutex
LockFreeAlways == TRUE

\* get_agdi().lock() returns when no thread holds the mutex
LockFree == holder = 0

\* a thread calls an exported entry point and waits in lock()
Enter(t) ==
    /\ th[t] = "out"
    /\ th' = [th EXCEPT ![t] = "wait"]
    /\ UNCHANGED <<tvars, connected, pvars, hvars, fvars, evars, xml, avars, holder,
                   p_callback>>

\* the mutex is taken by thread t
Lock(t) ==
    /\ th[t] = "wait"
    /\ LockFree
    /\ holder' = t
    /\ th' = [th EXCEPT ![t] = "in"]
    /\ UNCHANGED p_callback

\* AG_Init with another code, DllUv3Cap, EnumUvARM7: lock, answer, unlock
OtherEntry(t) ==
    /\ th[t] = "wait"
    /\ LockFree
    /\ th' = [th EXCEPT ![t] = "out"]
    /\ UNCHANGED <<tvars, connected, pvars, hvars, fvars, evars, xml, avars, holder,
                   p_callback>>

\* AG_Init(AG_INITITEM | AG_INITCALLBACK, vp): init_callback keeps the
\* pointer when it is not null
InitCallback(t) ==
    /\ th[t] = "wait"
    /\ LockFree
    /\ th' = [th EXCEPT ![t] = "out"]
    /\ \E vp \in {"null", "fn"} : p_callback' = IF vp = "null" THEN p_callback ELSE "Some"
    /\ UNCHANGED <<tvars, connected, pvars, hvars, fvars, evars, xml, avars, holder>>

\* the client is left with no call running
ClientIdle ==
    /\ pc' = "idle"
    /\ op' = "none"
    /\ cmd' = NoCmd
    /\ pkt' = <<>>
    /\ payload' = <<>>
    /\ result' = NoResult
    /\ sent_packets' = <<>>
    /\ rx' = <<>>
    /\ fw' = NoFw
    /\ fw_log' = <<>>
    /\ NoEscape

\* AG_Init(AG_INITITEM | AG_INITFLASHLOAD): init_flash_load
InitFlashLoad(t) ==
    /\ Lock(t)
    /\ ClientIdle
    /\ a_pc' = "returned"
    /\ UNCHANGED <<t_kind, peer, a_log, a_pf, a_wrote, a_block, a_fetched>>
    /\ IF ~ConnectCallsTransport
       THEN /\ a_ret' = AG_OK
            /\ t_calls' = 0
            /\ UNCHANGED <<t_connected, recv_buffer, recv_eof, connected>>
       ELSE \E r \in ConnectOutcomes :
            /\ t_calls' = 1
            /\ IF r = "Ok"
               THEN /\ t_connected' = TRUE
                    /\ recv_buffer' = IF t_kind = "Mock" THEN recv_buffer ELSE <<>>
                    /\ recv_eof' = IF t_kind = "Mock" THEN recv_eof ELSE FALSE
                    /\ connected' = TRUE
                    /\ a_ret' = AG_OK
               ELSE /\ a_ret' = AG_NOACCESS
                    /\ UNCHANGED <<t_connected, recv_buffer, recv_eof, connected>>

\* the next client call of the download starts as r says
Invoke(name, r) ==
    /\ op' = name
    /\ Start(r)
    /\ sent_packets' = <<>>
    /\ rx' = <<>>
    /\ payload' = <<>>
    /\ UNCHANGED <<recv_buffer>>

\* a panic inside the download, the frames of the call before it in the log
Panicked ==
    /\ pc' = "panicked"
    /\ result' = Err("Panic", <<>>)
    /\ sent_packets' = <<>>
    /\ UNCHANGED <<tvars, connected, op, cmd, pkt, payload, rx, t_calls, fw, fw_log,
                   evars, xml>>

\* the read through the null pointer ends the process
Crashed ==
    /\ pc' = "crashed"
    /\ result' = Err("Crash", <<>>)
    /\ sent_packets' = <<>>
    /\ UNCHANGED <<tvars, connected, op, cmd, pkt, payload, rx, t_calls, fw, fw_log,
                   evars, xml>>

\* do_flash_load_internal returns ret; start_flash_load disconnects and
\* returns it
Finish(ret, log) ==
    /\ a_pc' = "returned"
    /\ a_ret' = ret
    /\ a_log' = log
    /\ ClientIdle
    /\ UNCHANGED <<t_kind, peer, recv_buffer, recv_eof, a_pf, a_wrote, a_block, a_fetched,
                   lvars>>
    /\ IF ~connected
       THEN /\ t_calls' = 0
            /\ UNCHANGED <<t_connected, connected>>
       ELSE \E r \in CloseOutcomes :
            /\ t_calls' = 1
            /\ t_connected' = IF r = "Ok" THEN FALSE ELSE t_connected
            /\ connected' = DisconnectFlag(r)

\* AG_Init(AG_INITITEM | AG_STARTFLASHLOAD): start_flash_load, up to the
\* send_cmd of get_flash_info
StartFlashLoad(t) ==
    /\ Lock(t)
    /\ a_pc' = "info"
    /\ a_ret' = "none"
    /\ a_log' = Append(a_log, LogReport("Init", 0, t))
    /\ a_pf' = NoSeg
    /\ a_wrote' = 0
    /\ a_block' = <<>>
    /\ a_fetched' = 0
    /\ Invoke("get_flash_info", Command(StrQXfer, <<>>))

\* a loop that leaves for flash_done whatever the segment holds
WriteOrDoneAtOnce(seg, log) ==
    /\ a_pc' = "fdone"
    /\ a_log' = log
    /\ Invoke("flash_done", Command(StrFlashDone, <<>>))

\* the loop of do_flash_load_internal from `if pf.many == 0` on, with pf = seg
WriteOrDone(seg, log) ==
    IF seg.data # <<>>
    THEN \E how \in AddOutcomes(seg.start, 0) :
            /\ a_pc' = "write"
            /\ a_log' = log
            /\ Invoke("flash_write", WriteCommand(seg.start, seg.data, WriteChunk, how))
    ELSE /\ a_pc' = "fdone"
         /\ a_log' = log
         /\ Invoke("flash_done", Command(StrFlashDone, <<>>))

\* get_flash_info has returned: lines 204 to 227, up to the next send_cmd
AfterInfo ==
    /\ a_pc = "info"
    /\ pc = "done"
    /\ IF result.tag # "Ok" \/ result.val = <<>>
       THEN Finish(AG_NOACCESS, Logged)
       ELSE \E deref \in DerefOutcomes :
            IF deref = "crash"
            THEN /\ Crashed
                 /\ a_log' = Logged
                 /\ UNCHANGED <<a_pc, a_ret, a_pf, a_wrote, a_block, a_fetched, lvars>>
            ELSE \E seg \in Fetchable :
                 LET log    == Append(Logged, LogFetch(seg, holder))
                     block  == BlockSize(result.val[1])
                     value  == ToU32(seg.act_size)
                     align  == LowU32(block)
                 IN  /\ a_block' = block
                     /\ a_pf' = seg
                     /\ a_wrote' = 0
                     /\ a_fetched' = a_fetched + 1
                     /\ UNCHANGED <<a_ret, lvars>>
                     /\ IF seg.data # <<>>
                        THEN \E how \in AlignOutcomes(value, align) :
                             IF how = "panic"
                             THEN Panicked /\ a_pc' = a_pc /\ a_log' = log
                             ELSE /\ a_pc' = "erase"
                                  /\ a_log' = log
                                  /\ Invoke("flash_erase",
                                            EraseCommand(seg.start, align_up(value, align)))
                        ELSE WriteOrDone(seg, log)

\* flash_erase has returned: lines 223 to 236
AfterErase ==
    /\ a_pc = "erase"
    /\ pc = "done"
    /\ IF result.tag # "Ok"
       THEN Finish(AG_NOACCESS, Logged)
       ELSE /\ WriteOrDone(a_pf, Logged)
            /\ UNCHANGED <<a_ret, a_pf, a_wrote, a_block, a_fetched, lvars>>

\* flash_write has returned: lines 236 to 245
AfterWrite ==
    /\ a_pc = "write"
    /\ pc = "done"
    /\ IF result.tag # "Ok"
       THEN Finish(AG_NOACCESS, Logged)
       ELSE LET wrote == a_wrote + Len(a_pf.data)
            IN  /\ a_wrote' = wrote
                /\ UNCHANGED <<a_ret, a_block, lvars>>
                /\ \E how \in SetPosOutcomes(wrote, a_pf.act_size) :
                    IF how = "panic"
                    THEN /\ Panicked
                         /\ a_log' = Logged
                         /\ UNCHANGED <<a_pc, a_pf, a_fetched>>
                    ELSE LET log == Append(Logged,
                                           LogReport("SetPos",
                                                     SetPosValue(wrote, a_pf.act_size),
                                                     holder))
                         IN  \E deref \in DerefOutcomes :
                             IF deref = "crash"
                             THEN /\ Crashed
                                  /\ a_log' = log
                                  /\ UNCHANGED <<a_pc, a_pf, a_fetched>>
                             ELSE \E seg \in Fetchable :
                                  /\ a_pf' = seg
                                  /\ a_fetched' = a_fetched + 1
                                  /\ WriteOrDone(seg, Append(log, LogFetch(seg, holder)))

\* flash_done has returned: lines 245 to 251
AfterDone ==
    /\ a_pc = "fdone"
    /\ pc = "done"
    /\ IF result.tag # "Ok"
       THEN Finish(AG_NOACCESS, Logged)
       ELSE Finish(AG_OK, Append(Logged, LogReport("Kill", 0, holder)))

\* the entry point has returned to the host: the mutex is free again
LoadReturned ==
    /\ a_pc = "returned"
    /\ a_pc' = "idle"
    /\ a_ret' = "none"
    /\ a_log' = <<>>
    /\ a_pf' = NoSeg
    /\ a_wrote' = 0
    /\ a_block' = <<>>
    /\ a_fetched' = 0
    /\ holder' = 0
    /\ th' = [t \in Threads |-> IF t = holder THEN "out" ELSE th[t]]
    /\ UNCHANGED p_callback
    /\ t_calls' = 0
    /\ UNCHANGED <<tvars, connected, pvars, sent_packets, rx, fvars, evars, xml>>

(* ------------------------------------------------------------------ *)
(* Specifications                                                       *)
(* ------------------------------------------------------------------ *)

\* GdbClient::new over a TcpTransport::new, a MockTransport::new(_, connected)
\* or another implementation of GdbTransport
InitClient ==
    /\ t_kind \in {"Tcp", "Mock", "Generic"}
    /\ t_connected \in IF t_kind = "Tcp" THEN {FALSE} ELSE BOOLEAN
    /\ recv_buffer = <<>>
    /\ recv_eof = FALSE
    /\ connected = FALSE
    /\ pc = "idle"
    /\ op = "none"
    /\ cmd = NoCmd
    /\ pkt = <<>>
    /\ payload = <<>>
    /\ result = NoResult
    /\ sent_packets = <<>>
    /\ rx = <<>>
    /\ t_calls = 0
    /\ fw = NoFw
    /\ fw_log = <<>>
    /\ esc_in = <<>>
    /\ esc_out = <<>>
    /\ xml = <<>>

\* the caller has the result: the operation's locals and the logs are dropped
Returned ==
    /\ pc = "done"
    /\ pc' = "idle"
    /\ op' = "none"
    /\ cmd' = NoCmd
    /\ pkt' = <<>>
    /\ payload' = <<>>
    /\ result' = NoResult
    /\ sent_packets' = <<>>
    /\ rx' = <<>>
    /\ t_calls' = 0
    /\ fw' = NoFw
    /\ fw_log' = <<>>
    /\ NoEscape
    /\ UNCHANGED <<tvars, connected, avars, lvars>>

Steps ==
    StepSend \/ StepAck \/ StepDollar \/ StepPayload \/ StepCsum \/ StepPlus \/ Returned

\* the client's operations against a peer that answers each frame it receives
Init == InitClient /\ InitAgdi /\ peer = "Script"

Next ==
    \/ Connect \/ Disconnect
    \/ CallSendCmd \/ CallFlashErase \/ CallFlashWrite \/ CallFlashDone
    \/ CallReadMemory \/ CallGetFlashInfo \/ CallEscape
    \/ Steps

Spec == Init /\ [][Next]_vars

\* send_cmd against a peer that sends arbitrary bytes
InitWire == InitClient /\ InitAgdi /\ peer = "Any" /\ t_kind \in {"Tcp", "Mock"}

NextWire == Connect \/ Disconnect \/ CallSendCmd \/ Steps

SpecWire == InitWire /\ [][NextWire]_vars

\* the parser on documents of up to MaxElems elements
InitXml == InitClient /\ InitAgdi /\ peer = "Script" /\ t_kind = "Mock" /\ ~t_connected

NextXml == CallParse \/ Returned

SpecXml == InitXml /\ [][NextXml]_vars

\* the steps of a running send_cmd
CmdSteps == StepSend \/ StepAck \/ StepDollar \/ StepPayload \/ StepCsum \/ StepPlus

\* host threads calling the entry points of the Agdi instance, whose client
\* talks to a target over TCP
InitLoad == InitClient /\ InitAgdi /\ peer = "Target" /\ t_kind = "Tcp"

NextLoad ==
    \/ \E t \in Threads :
           \/ Enter(t) \/ OtherEntry(t) \/ InitCallback(t)
           \/ InitFlashLoad(t) \/ StartFlashLoad(t)
    \/ AfterInfo \/ AfterErase \/ AfterWrite \/ AfterDone \/ LoadReturned
    \/ CmdSteps

SpecLoad == InitLoad /\ [][NextLoad]_vars

(* ------------------------------------------------------------------ *)
(* Properties                                                           *)
(* ------------------------------------------------------------------ *)

\* the index of the first b in s at or after from, 0 if there is none
RECURSIVE FirstIdx(_, _, _)
FirstIdx(s, b, from) ==
    IF from > Len(s) THEN 0
    ELSE IF s[from] = b THEN from
    ELSE FirstIdx(s, b, from + 1)

\* s is '+', bytes without '$', '$', bytes without '#', '#' and two more bytes
Shaped(s) ==
    /\ Len(s) >= 5
    /\ s[1] = Plus
    /\ LET d == FirstIdx(s, Dollar, 2)
           h == IF d = 0 THEN 0 ELSE FirstIdx(s, Hash, d + 1)
       IN  d # 0 /\ h # 0 /\ Len(s) = h + 2

\* the bytes between the '$' and the '#' of a shaped stream
ShapedPayload(s) ==
    LET d == FirstIdx(s, Dollar, 2)
        h == FirstIdx(s, Hash, d + 1)
    IN  SubSeq(s, d + 1, h - 1)

\* the frame send_cmd was asked to send
Frame == <<Dollar>> \o cmd.prefix \o cmd.binary \o <<Hash>>

IsFrameOf(f) == Len(f) = Len(Frame) + 2 /\ SubSeq(f, 1, Len(Frame)) = Frame

\* C1: when the peer's bytes are '+', bytes without '$', then '$' P '#' and
\* two more bytes, and the transport does not fail, send_cmd returns exactly P
\* and has sent exactly its frame and then one '+'; a '+' is sent only once the
\* two checksum bytes have been read, and no shaped stream is rejected.
C1_ReturnsPayloadThenAcks ==
    op = "send_cmd" =>
        /\ (pc = "done" /\ Shaped(rx) /\ result.tag # "Io") =>
                /\ result = Ok(ShapedPayload(rx))
                /\ Len(sent_packets) = 2
                /\ IsFrameOf(sent_packets[1])
                /\ sent_packets[2] = <<Plus>>
        /\ (\E i \in 1..Len(sent_packets) : sent_packets[i] = <<Plus>>) => Shaped(rx)
        /\ (rx # <<>> /\ rx[1] = Plus) => result.tag \notin {"NACK", "UnexpectedAck"}

\* a send_cmd that skipped a byte before the '$' and returned a payload that
\* holds a '$'
C1_Witness ==
    /\ op = "send_cmd"
    /\ pc = "done"
    /\ result = Ok(<<79, Dollar>>)
    /\ rx[2] = Minus
    /\ Len(sent_packets) = 2

\* the frames among the sent data (everything but the '+' acknowledgements)
RECURSIVE FramesOf(_)
FramesOf(sent) ==
    IF sent = <<>> THEN <<>>
    ELSE IF Head(sent) = <<Plus>> THEN FramesOf(Tail(sent))
    ELSE <<Head(sent)>> \o FramesOf(Tail(sent))

\* the commands issued so far by the running operation
CommandsIssued == IF op = "flash_write" THEN Len(fw_log) ELSE 1

\* C2: when the first byte read after the frame is '-', the command fails with
\* NACK, when it is neither '+' nor '-' it fails with an unexpected
\* acknowledgement; the frame went out once, nothing is sent after it and
\* nothing more is read.
C2_RejectedAtOnce ==
    (rx # <<>> /\ rx[1] # Plus) =>
        /\ pc = "done"
        /\ rx = <<rx[1]>>
        /\ result = IF rx[1] = Minus THEN Err("NACK", <<>>)
                    ELSE Err("UnexpectedAck", <<rx[1]>>)
        /\ sent_packets # <<>>
        /\ IsFrameOf(sent_packets[Len(sent_packets)])
        /\ Len(FramesOf(sent_packets)) = CommandsIssued

\* the second chunk of a flash_write was answered with '-'
C2_Witness ==
    /\ op = "flash_write"
    /\ Len(fw_log) = 2
    /\ rx = <<Minus>>
    /\ result.tag = "NACK"

\* the sum of the bytes of s
RECURSIVE SumBytes(_)
SumBytes(s) == IF s = <<>> THEN 0 ELSE Head(s) + SumBytes(Tail(s))

\* "0123456789abcdef"
HexChars == <<48, 49, 50, 51, 52, 53, 54, 55, 56, 57, 97, 98, 99, 100, 101, 102>>

\* f is '$' body '#' h1 h2, h1 h2 the lowercase hexadecimal digits of the sum of
\* body modulo 256
WellFormedFrame(f) ==
    /\ Len(f) >= 4
    /\ f[1] = Dollar
    /\ f[Len(f) - 2] = Hash
    /\ LET sum == SumBytes(SubSeq(f, 2, Len(f) - 3)) % 256
       IN  /\ f[Len(f) - 1] = HexChars[(sum \div 16) + 1]
           /\ f[Len(f)] = HexChars[(sum % 16) + 1]

\* C3: every frame sent is '$' body '#' h1 h2 with h1 h2 the two lowercase
\* hexadecimal digits of the sum modulo 256 of the bytes of body as sent.
C3_FrameChecksum ==
    /\ \A i \in 1..Len(sent_packets) :
            sent_packets[i] # <<Plus>> => WellFormedFrame(sent_packets[i])
    /\ pc = "send" => WellFormedFrame(pkt)

\* a frame with a binary argument whose body sums to 256 or more and whose
\* checksum has a letter digit
C3_Witness ==
    /\ sent_packets # <<>>
    /\ LET f == sent_packets[1]
       IN  /\ cmd.binary # <<>>
           /\ SumBytes(SubSeq(f, 2, Len(f) - 3)) >= 256
           /\ f[Len(f)] >= 97

\* the frame of the chunk flash_write sent last, its checksum field, and the
\* chunk's bytes as they are in the frame; ChunkSent: the frame of the chunk
\* in fw has gone out
LastFrame == FramesOf(sent_packets)[Len(FramesOf(sent_packets))]
ChecksumField(f) == SubSeq(f, Len(f) - 1, Len(f))
ChunkPrefix == StrFlashWrite \o HexU32(fw.waddr) \o StrColon
ChunkAsSent == SubSeq(LastFrame, 2 + Len(ChunkPrefix), Len(LastFrame) - 3)
ChunkSent ==
    /\ op = "flash_write"
    /\ fw_log # <<>>
    /\ Len(FramesOf(sent_packets)) = Len(fw_log)

\* the two lowercase hexadecimal digits of n modulo 256
HexField(n) == <<HexChars[((n % 256) \div 16) + 1], HexChars[(n % 16) + 1]>>

\* what a byte of the chunk adds to the sum of the frame's body: itself, or
\* '}' plus the byte with bit 0x20 flipped for '#' (0x03), '$' (0x04),
\* '*' (0x0a) and '}' (0x5d)
AsSentSum(b) ==
    CASE b = 35 -> 125 + 3
      [] b = 36 -> 125 + 4
      [] b = 42 -> 125 + 10
      [] b = 125 -> 125 + 93
      [] OTHER -> b

RECURSIVE SumAsSent(_)
SumAsSent(s) == IF s = <<>> THEN 0 ELSE AsSentSum(Head(s)) + SumAsSent(Tail(s))

HasSpecial(s) == \E i \in 1..Len(s) : s[i] \in {35, 36, 42, 125}

\* C4 as stated: the checksum field of every vFlashWrite frame is the wrapping
\* 8-bit sum of the prefix bytes and the unescaped, padded chunk bytes.
C4_ChecksumOfUnescaped ==
    ChunkSent => ChecksumField(LastFrame) = HexField(SumBytes(ChunkPrefix) + SumBytes(fw.block))

\* C4 as amended: the checksum field of every vFlashWrite frame is the wrapping
\* 8-bit sum of the prefix bytes and the chunk bytes as sent, where each of
\* '#', '$', '*', '}' counts as '}' plus the byte with 0x20 flipped; it is the
\* sum over the unescaped chunk when the chunk has none of these bytes.
C4_ChecksumOfEscaped ==
    ChunkSent =>
        /\ ChecksumField(LastFrame) = HexField(SumBytes(ChunkPrefix) + SumAsSent(fw.block))
        /\ ~HasSpecial(fw.block) =>
              ChecksumField(LastFrame) = HexField(SumBytes(ChunkPrefix) + SumBytes(fw.block))

\* a chunk with two special bytes, padded, has been sent
C4_Witness ==
    /\ ChunkSent
    /\ fw.block = <<Hash, RBrace, PadByte, PadByte>>
    /\ pc = "ack"

\* the inverse mapping: each pair '}' x becomes x with 0x20 flipped, every
\* other byte stays
RECURSIVE Unescape(_)
Unescape(s) ==
    IF s = <<>> THEN <<>>
    ELSE IF Head(s) = 125 /\ Len(s) >= 2
         THEN <<IF (s[2] \div 32) % 2 = 1 THEN s[2] - 32 ELSE s[2] + 32>>
              \o Unescape(SubSeq(s, 3, Len(s)))
         ELSE <<Head(s)>> \o Unescape(Tail(s))

\* C5: unescaping escape_binary(d) gives d back, for every d, so that no two
\* inputs have the same escaped form (each is the unescaped form of its own);
\* the escaped form holds no '#', '$' or '*' at all.
C5_EscapeRoundTrip ==
    (op = "escape_binary" /\ pc = "done") =>
        /\ Unescape(esc_out) = esc_in
        /\ \A i \in 1..Len(esc_out) : esc_out[i] \notin {35, 36, 42}

\* escape_binary has run on '}', ']', '#': an escape byte, the second byte of
\* its escaped form, and a special byte
C5_Witness ==
    /\ op = "escape_binary"
    /\ pc = "done"
    /\ esc_in = <<RBrace, 93, Hash>>
    /\ Len(esc_out) = 5

\* the number of special bytes among the first i bytes of d
SpecialsBefore(d, i) == Cardinality({j \in 1..i : d[j] \in {35, 36, 42, 125}})

\* b with 0x20 flipped, for the four special bytes
Flipped(b) == CASE b = 35 -> 3 [] b = 36 -> 4 [] b = 42 -> 10 [] b = 125 -> 93

\* out is, byte by byte of d and in order, the pair ('}', b with 0x20 flipped)
\* for a special b and the byte b otherwise
PairsInOrder(d, out) ==
    /\ Len(out) = Len(d) + SpecialsBefore(d, Len(d))
    /\ \A i \in 1..Len(d) :
        LET at == i + SpecialsBefore(d, i - 1)
        IN  IF d[i] \in {35, 36, 42, 125}
            THEN out[at] = 125 /\ out[at + 1] = Flipped(d[i])
            ELSE out[at] = d[i]

\* C6: escape_binary(d) is the in-order concatenation of one pair per special
\* byte and one byte per other byte, so its length is len(d) plus the number
\* of special bytes; the body of a vFlashWrite frame is its prefix followed by
\* these pairs and bytes for the padded chunk.
C6_EscapePairsInOrder ==
    /\ (op = "escape_binary" /\ pc = "done") => PairsInOrder(esc_in, esc_out)
    /\ ChunkSent =>
        /\ SubSeq(LastFrame, 2, 1 + Len(ChunkPrefix)) = ChunkPrefix
        /\ PairsInOrder(fw.block, ChunkAsSent)

\* flash_write has sent the chunk '$', '#' padded with two 0xff
C6_Witness ==
    /\ ChunkSent
    /\ pc = "ack"
    /\ fw.block = <<Dollar, Hash, PadByte, PadByte>>
    /\ Len(ChunkAsSent) = 6

\* C7: the client's connected flag equals the transport's connectivity state
\* in every reachable state.
C7_FlagEqualsTransport == connected = t_connected

\* the operations that talk to the peer
RspOps == {"send_cmd", "flash_erase", "flash_write", "flash_done", "read_memory",
           "get_flash_info"}

\* C8: while the connected flag is false, every RSP-level operation fails with
\* a not-connected error and sends nothing.
C8_FailsWhenFlagFalse ==
    (op \in RspOps /\ ~connected) =>
        /\ sent_packets = <<>>
        /\ pc = "done" => result.tag = "NotConnected"

\* C9: connect on a connected client returns success without calling the
\* transport, and the flag stays true until a disconnect; disconnect on a
\* client whose flag is false returns success without calling the transport;
\* a connect whose transport call fails leaves the flag false and a disconnect
\* whose transport call fails leaves it true, and each makes one transport call.
C9_ConnectIdempotent ==
    [][ /\ (pc = "idle" /\ op' = "connect") =>
            IF connected
            THEN t_calls' = 0 /\ result' = Ok(<<>>) /\ connected'
            ELSE t_calls' = 1 /\ (connected' <=> result' = Ok(<<>>))
        /\ (pc = "idle" /\ op' = "disconnect") =>
            IF ~connected
            THEN t_calls' = 0 /\ result' = Ok(<<>>) /\ ~connected'
            ELSE t_calls' = 1 /\ (connected' <=> result' # Ok(<<>>))
        /\ (connected /\ op' # "disconnect") => connected'
      ]_vars

\* a connect on a connected client has returned success without a transport call
C9_Witness ==
    /\ op = "connect"
    /\ pc = "done"
    /\ t_calls = 0
    /\ connected
    /\ result = Ok(<<>>)

\* the chunks of the log that carry byte i (from 0) of data at address addr + i
Carriers(i) ==
    {k \in 1..Len(fw_log) :
        /\ fw_log[k].from <= i
        /\ i < fw_log[k].from + fw_log[k].n
        /\ fw_log[k].block[i - fw_log[k].from + 1] = fw.data[i + 1]
        /\ U32Add(fw_log[k].addr, ToU32(i - fw_log[k].from)) = U32Add(fw.addr, ToU32(i))}

\* C10: a flash_write whose every command was answered OK has sent consecutive
\* chunks of at most chunk_size bytes, and every byte data[i] exactly once, at
\* address addr + i.
C10_EveryByteOnce ==
    (op = "flash_write" /\ pc = "done" /\ result = Ok(<<>>)) =>
        /\ \A k \in 1..Len(fw_log) : fw_log[k].n <= fw.chunk
        /\ \A i \in 0..(Len(fw.data) - 1) : Cardinality(Carriers(i)) = 1

\* C11: every chunk flash_write transmits has, before escaping, a length that
\* is a multiple of 4: its n data bytes are followed by exactly 4 - (n mod 4)
\* bytes 0xFF when n mod 4 # 0 and by nothing when n mod 4 = 0; the frame on
\* the wire, unescaped, is that padded chunk.
C11_ChunksPaddedToWord ==
    /\ \A k \in 1..Len(fw_log) :
        LET e == fw_log[k]
            r == e.n % 4
        IN  /\ Len(e.block) % 4 = 0
            /\ e.n >= 0
            /\ SubSeq(e.block, 1, e.n) = SubSeq(fw.data, e.from + 1, e.from + e.n)
            /\ Len(e.block) = IF r # 0 THEN e.n + (4 - r) ELSE e.n
            /\ \A i \in (e.n + 1)..Len(e.block) : e.block[i] = 255
    /\ ChunkSent =>
        /\ Unescape(ChunkAsSent) = fw_log[Len(fw_log)].block
        /\ Len(Unescape(ChunkAsSent)) % 4 = 0

\* flash_write has sent a chunk of 4 bytes without padding and then a chunk of
\* 3 bytes with one 0xFF
C11_Witness ==
    /\ ChunkSent
    /\ pc = "ack"
    /\ Len(fw_log) = 2
    /\ fw_log[1].n = 4 /\ Len(fw_log[1].block) = 4
    /\ fw_log[2].n = 3 /\ fw_log[2].block[4] = 255

\* the value of a hexadecimal digit, and of a string of up to four of them
DigitValue(c) == (CHOOSE i \in 1..16 : HexChars[i] = c) - 1
RECURSIVE HexValue(_)
HexValue(s) ==
    IF s = <<>> THEN 0
    ELSE HexValue(SubSeq(s, 1, Len(s) - 1)) * 16 + DigitValue(s[Len(s)])

\* s is the lowercase hexadecimal numeral, without leading zeros, of the
\* 32-bit number a
IsHexOf(s, a) ==
    /\ Len(s) \in 1..8
    /\ \A i \in 1..Len(s) : \E j \in 1..16 : HexChars[j] = s[i]
    /\ Len(s) > 1 => s[1] # 48
    /\ LET cut == IF Len(s) > 4 THEN Len(s) - 4 ELSE 0
       IN  /\ HexValue(SubSeq(s, 1, cut)) = a[1]
           /\ HexValue(SubSeq(s, cut + 1, Len(s))) = a[2]

\* the body of a frame: what is between its '$' and its '#'
BodyOf(f) == SubSeq(f, 2, Len(f) - 3)

\* b is "vFlashErase:" numeral of addr "," numeral of len
IsEraseBody(b, addr, len) ==
    LET k == Len(StrFlashErase)
        c == FirstIdx(b, 44, k + 1)
    IN  /\ Len(b) > k
        /\ SubSeq(b, 1, k) = StrFlashErase
        /\ c # 0
        /\ IsHexOf(SubSeq(b, k + 1, c - 1), addr)
        /\ IsHexOf(SubSeq(b, c + 1, Len(b)), len)

\* b is "vFlashWrite:" numeral of addr ":" and the chunk
IsWriteBodyAt(b, addr) ==
    LET k == Len(StrFlashWrite)
        c == FirstIdx(b, 58, k + 1)
    IN  /\ Len(b) > k
        /\ c # 0
        /\ IsHexOf(SubSeq(b, k + 1, c - 1), addr)

\* the step in which send_cmd returns the payload it read to its caller
Answered == pc = "plus" /\ sent_packets' = Append(sent_packets, <<Plus>>)

\* C12: flash_erase sends one command with body "vFlashErase:" hex(addr) ","
\* hex(len) and flash_done one with body "vFlashDone", and nothing but the
\* '+' after it; each succeeds exactly when send_cmd returned the payload OK
\* and fails on every other payload; in flash_write the first payload that is
\* not OK ends the call with a failure that names the start address of the
\* chunk just sent, and no chunk is sent after it.
C12_SuccessIffExactlyOK ==
    [][ /\ (pc = "idle" /\ op' = "flash_erase") =>
              pc' = "send" /\ IsEraseBody(BodyOf(pkt'), fw'.addr, fw'.len)
        /\ (pc = "idle" /\ op' = "flash_done") =>
              pc' = "send" /\ BodyOf(pkt') = StrFlashDone
        /\ (op \in {"flash_erase", "flash_done"} /\ pc # "done"
               /\ sent_packets' # sent_packets) =>
              \/ sent_packets = <<>> /\ sent_packets' = <<pkt>> /\ pkt' = pkt
              \/ Answered /\ pc' = "done" /\ Len(sent_packets') = 2
        /\ (op \in {"flash_erase", "flash_done"} /\ Answered) =>
              /\ payload = <<79, 75>> => result' = Ok(<<>>)
              /\ payload # <<79, 75>> =>
                    result' = IF op = "flash_erase" THEN Err("EraseFailed", payload)
                              ELSE Err("FlashDoneFailed", <<>>)
        /\ (op \in {"flash_erase", "flash_done"} /\ pc # "done" /\ pc' = "done"
               /\ result' = Ok(<<>>)) =>
              Answered /\ payload = <<79, 75>>
        /\ (op = "flash_write" /\ Answered) =>
              IF payload # <<79, 75>>
              THEN /\ pc' = "done"
                   /\ result'.tag = "WriteFailed"
                   /\ IsWriteBodyAt(BodyOf(LastFrame), result'.val)
                   /\ result'.val = fw_log[Len(fw_log)].addr
                   /\ fw_log' = fw_log
                   /\ Len(FramesOf(sent_packets')) = Len(fw_log)
              ELSE result'.tag # "WriteFailed"
        /\ (op = "flash_write" /\ pc # "done" /\ pc' = "done"
               /\ result'.tag = "WriteFailed") => Answered
        /\ (pc = "done" /\ result.tag \in {"EraseFailed", "FlashDoneFailed", "WriteFailed"}) =>
              sent_packets' = <<>> /\ pc' = "idle"
      ]_vars

\* the second chunk of a flash_write was answered OKK and the call failed
\* naming its address
C12_Witness ==
    /\ op = "flash_write"
    /\ pc = "done"
    /\ Len(fw_log) = 2
    /\ payload = <<79, 75, 75>>
    /\ result = Err("WriteFailed", fw_log[2].addr)
    /\ fw_log[2].addr # fw_log[1].addr

\* the parser has returned from a call on its own
Parsed == op = "parse_flash_regions_from_xml" /\ pc \in {"done", "panicked"}

\* the value of an attribute of a tag, <<>> when it has none of that key
RECURSIVE AttrValue(_, _)
AttrValue(attrs, key) ==
    IF attrs = <<>> THEN <<>>
    ELSE IF attrs[Len(attrs)].key = key THEN attrs[Len(attrs)].value
    ELSE AttrValue(SubSeq(attrs, 1, Len(attrs) - 1), key)

\* a memory element's opening or self-closing tag
IsMemoryTag(e) == e.k \in {"Start", "Empty"} /\ e.name = "memory"

\* the tag opens a property element named blocksize
IsBlocksizeTag(e) ==
    e.k = "Start" /\ e.name = "property" /\ AttrValue(e.attrs, "name") = <<98, 108, 111, 99, 107, 115, 105, 122, 101>>

\* s is a hexadecimal number: digits, after an optional 0x or 0X
IsHexNumber(s) ==
    LET t == Trim(s)
        d == IF Len(t) >= 2 /\ t[1] = 48 /\ t[2] \in {120, 88} THEN SubSeq(t, 3, Len(t)) ELSE t
    IN  /\ d # <<>>
        /\ \A i \in 1..Len(d) : d[i] \in (48..57) \cup (97..102) \cup (65..70)

\* the numbers of the document: the start and length of its memory elements
\* and the text of its blocksize properties
BadNumber(evs) ==
    \E i \in 1..Len(evs) :
        \/ /\ IsMemoryTag(evs[i])
           /\ \/ ~IsHexNumber(AttrValue(evs[i].attrs, "start"))
              \/ ~IsHexNumber(AttrValue(evs[i].attrs, "length"))
        \/ /\ evs[i].k = "Text"
           /\ i > 1
           /\ IsBlocksizeTag(evs[i - 1])
           /\ ~IsHexNumber(evs[i].txt)

Malformed(evs) == \E i \in 1..Len(evs) : evs[i].k = "Err"

\* the start and length of the flash elements of the document, in its order
RECURSIVE FlashElements(_)
FlashElements(evs) ==
    IF evs = <<>> THEN <<>>
    ELSE IF IsMemoryTag(Head(evs)) /\ AttrValue(Head(evs).attrs, "type") = <<102, 108, 97, 115, 104>>
         THEN <<[start |-> parse_hex_u64(AttrValue(Head(evs).attrs, "start")).val,
                 length |-> parse_hex_u64(AttrValue(Head(evs).attrs, "length")).val]>>
              \o FlashElements(Tail(evs))
         ELSE FlashElements(Tail(evs))

\* the start and length of the regions returned
StartsAndLengths(regions) ==
    [i \in 1..Len(regions) |-> [start |-> regions[i].start, length |-> regions[i].length]]

\* C13: for every well-formed document whose numbers are hexadecimal the
\* parser returns one region per memory element of type flash, with or
\* without a blocksize child, in document order and with that element's start
\* and length, and none for elements of another type.
C13_OneRegionPerFlashElement ==
    (Parsed /\ ~Malformed(ReadEvents(xml)) /\ ~BadNumber(ReadEvents(xml))) =>
        /\ result.tag = "Ok"
        /\ StartsAndLengths(result.val) = FlashElements(ReadEvents(xml))

\* C14: when a start, length or blocksize of the document is no hexadecimal
\* number, or the document is malformed, the parser returns an error value:
\* no region list and no abort.
C14_ErrorValueOnBadInput ==
    (Parsed /\ (Malformed(ReadEvents(xml)) \/ BadNumber(ReadEvents(xml)))) =>
        /\ pc = "done"
        /\ result.tag = "XmlError"

\* the events of the download so far: the log and the frames of the running
\* client call
Events == a_log \o LogCmds(sent_packets, holder)

HasPrefix(s, p) == Len(s) >= Len(p) /\ SubSeq(s, 1, Len(p)) = p

\* what an event is in the order of a download: a progress report's job, a
\* command's name, "" for a fetch or a return
Symbol(ev) ==
    IF ev.e = "Report" THEN ev.job
    ELSE IF ev.e # "Cmd" THEN ""
    ELSE LET b == SubSeq(ev.frame, 2, Len(ev.frame) - 3)
         IN  IF HasPrefix(b, <<113, 88, 102, 101, 114>>) THEN "Query"
             ELSE IF HasPrefix(b, <<118, 70, 108, 97, 115, 104, 69>>) THEN "Erase"
             ELSE IF HasPrefix(b, <<118, 70, 108, 97, 115, 104, 87>>) THEN "Write"
             ELSE IF HasPrefix(b, <<118, 70, 108, 97, 115, 104, 68>>) THEN "Done"
             ELSE "Unknown"

\* the place in the order Init, Query, at most one Erase, Writes and SetPos,
\* Done, Kill after the symbol x at place q, -1 when x may not come there;
\* each: every Write is followed by its own SetPos
OrderStep(q, x, each) ==
    CASE x = "" -> q
      [] q = 0 /\ x = "Init" -> 1
      [] q = 1 /\ x = "Query" -> 2
      [] q = 2 /\ x = "Erase" -> 3
      [] q \in {2, 3, 5} /\ x = "Write" -> 4
      [] q = 4 /\ x = "Write" /\ ~each -> 4
      [] q = 4 /\ x = "SetPos" -> 5
      [] q \in {2, 3, 5} /\ x = "Done" -> 6
      [] q = 6 /\ x = "Kill" -> 7
      [] OTHER -> -1

RECURSIVE OrderFrom(_, _, _, _)
OrderFrom(evs, i, q, each) ==
    IF i > Len(evs) \/ q = -1 THEN q
    ELSE OrderFrom(evs, i + 1, OrderStep(q, Symbol(evs[i]), each), each)

\* no Write before a flash_erase returned Ok, no Done before a fetch
\* returned a segment of no bytes; a download that returned AG_OK went
\* through the whole order
ErasedBeforeWrite(evs) ==
    \A i \in 1..Len(evs) :
        Symbol(evs[i]) = "Write" =>
            \E j \in 1..(i - 1) :
                evs[j].e = "Ret" /\ evs[j].job = "flash_erase" /\ evs[j].res.tag = "Ok"

EndedBeforeDone(evs) ==
    \A i \in 1..Len(evs) :
        Symbol(evs[i]) = "Done" =>
            \E j \in 1..(i - 1) : evs[j].e = "Fetch" /\ evs[j].seg.data = <<>>

\* start_flash_load has returned
DownloadReturned == a_pc = "returned" /\ a_log # <<>>

\* C15 as stated: the events of a download come in the order Init report,
\* memory-map query, at most one vFlashErase, then vFlashWrite commands each
\* followed by a SetPos report, then one vFlashDone, then the Kill report; no
\* vFlashWrite before the vFlashErase was answered OK, no vFlashDone before
\* the segment source returned a segment of no bytes.
C15_EachWriteThenSetPos ==
    /\ OrderFrom(Events, 1, 0, TRUE) # -1
    /\ ErasedBeforeWrite(Events)
    /\ EndedBeforeDone(Events)
    /\ (DownloadReturned /\ a_ret = AG_OK) => OrderFrom(Events, 1, 0, TRUE) = 7

\* C15 as amended: the same order, where the vFlashWrite commands of one
\* segment (one per chunk of 256 bytes) are followed by one SetPos report.
C15_SegmentWritesThenSetPos ==
    /\ OrderFrom(Events, 1, 0, FALSE) # -1
    /\ ErasedBeforeWrite(Events)
    /\ EndedBeforeDone(Events)
    /\ (DownloadReturned /\ a_ret = AG_OK) => OrderFrom(Events, 1, 0, FALSE) = 7

\* the number of events with symbol x
Count(evs, x) == Cardinality({i \in 1..Len(evs) : Symbol(evs[i]) = x})

\* a download of two segments, one of them of two chunks, has returned AG_OK
C15_Witness ==
    /\ DownloadReturned
    /\ a_ret = AG_OK
    /\ Count(a_log, "Erase") = 1
    /\ Count(a_log, "Write") = 3
    /\ Count(a_log, "SetPos") = 2
    /\ Symbol(a_log[Len(a_log)]) = "Kill"

\* a client call of the download has failed: its return is not Ok, or the
\* memory map it returns has no flash region
IsFailure(ev) ==
    /\ ev.e = "Ret"
    /\ \/ ev.res.tag # "Ok"
       \/ ev.job = "get_flash_info" /\ ev.res.val = <<>>

\* C16: the first failure of a download (memory-map query, empty region list,
\* erase, write or done) makes it return AG_NOACCESS at once, with no command,
\* fetch or report after the failure; a failing memory-map query is one that
\* returns, never one that ends the process; the Kill report is emitted
\* exactly when the download returns AG_OK.
C16_FirstFailureReturnsNoAccess ==
    /\ \A i \in 1..Len(Events) :
           IsFailure(Events[i]) =>
               /\ i = Len(Events)
               /\ DownloadReturned
               /\ a_ret = AG_NOACCESS
    /\ ~(a_pc = "info" /\ pc = "panicked")
    /\ DownloadReturned => (Count(a_log, "Kill") = 1 <=> a_ret = AG_OK)
    /\ ~DownloadReturned => Count(Events, "Kill") = 0

\* C17: when start_flash_load has returned, with AG_OK or AG_NOACCESS, the
\* transport is closed and the connected flag is false; the flag is set again
\* only by an init_flash_load that calls the transport's connect.
C17_ReleasedAfterDownload ==
    [][/\ DownloadReturned' => (~connected' /\ ~t_connected')
       /\ (~connected /\ connected') =>
              (a_pc = "idle" /\ a_pc' = "returned" /\ a_log' = <<>> /\ t_calls' = 1
                 /\ t_connected')
       /\ (a_pc = "idle" /\ a_pc' = "returned" /\ ~connected) => t_calls' = 1]_vars

\* a download that had opened the connection and returned AG_NOACCESS after
\* its erase failed has closed it
C17_Witness ==
    /\ DownloadReturned
    /\ a_ret = AG_NOACCESS
    /\ Count(a_log, "Erase") = 1
    /\ t_calls = 1
    /\ ~connected
    /\ ~t_connected

\* the two numbers of "vFlashErase:<addr>,<len>" and the address of
\* "vFlashWrite:<addr>:<data>" as u32, the escaped data of the latter
FieldEnd(b, from, sep) ==
    CHOOSE k \in from..(Len(b) + 1) :
        /\ k = Len(b) + 1 \/ b[k] = sep
        /\ \A j \in from..(k - 1) : b[j] # sep
U32OfHex(hex) ==
    LET p == [i \in 1..8 |->
                 IF i + Len(hex) > 8 THEN DigitValue(hex[i + Len(hex) - 8]) ELSE 0]
    IN  <<NibblesValue(SubSeq(p, 1, 4)), NibblesValue(SubSeq(p, 5, 8))>>
EraseStart(frame) ==
    LET b == BodyOf(frame) IN U32OfHex(SubSeq(b, 13, FieldEnd(b, 13, 44) - 1))
EraseLength(frame) ==
    LET b == BodyOf(frame) IN U32OfHex(SubSeq(b, FieldEnd(b, 13, 44) + 1, Len(b)))
WriteStart(frame) ==
    LET b == BodyOf(frame) IN U32OfHex(SubSeq(b, 13, FieldEnd(b, 13, 58) - 1))
\* every escaped byte is two bytes, the first of them '}'
WriteLength(frame) ==
    LET b == BodyOf(frame)
        from == FieldEnd(b, 13, 58) + 1
    IN  (Len(b) - from + 1) - Cardinality({i \in from..Len(b) : b[i] = 125})

\* a + n <= b + m for u32 a, b and n, m below 2^16, without wrapping
EndsBefore(a, n, b, m) ==
    \/ a[1] + ((a[2] + n) \div W16) < b[1] + ((b[2] + m) \div W16)
    \/ /\ a[1] + ((a[2] + n) \div W16) = b[1] + ((b[2] + m) \div W16)
       /\ (a[2] + n) % W16 <= (b[2] + m) % W16

\* C18: every address written by a vFlashWrite of a download lies in the
\* range [start, start + length) of the vFlashErase sent before it.
C18_WritesInsideErasedRange ==
    \A i \in 1..Len(Events) :
        Symbol(Events[i]) = "Write" =>
            \E j \in 1..(i - 1) :
                /\ Symbol(Events[j]) = "Erase"
                /\ EndsBefore(EraseStart(Events[j].frame), 0,
                              WriteStart(Events[i].frame), 0)
                /\ EraseLength(Events[j].frame)[1] = 0
                /\ EndsBefore(WriteStart(Events[i].frame), WriteLength(Events[i].frame),
                              EraseStart(Events[j].frame),
                              EraseLength(Events[j].frame)[2])

\* the frames and the '+' among what the client has sent
FramesSent(sent) == Cardinality({i \in 1..Len(sent) : sent[i] # <<Plus>>})
PlusSent(sent) == Cardinality({i \in 1..Len(sent) : sent[i] = <<Plus>>})

\* the client sends a command frame in this step
SendsFrame ==
    /\ Len(sent_packets') = Len(sent_packets) + 1
    /\ sent_packets'[Len(sent_packets')] # <<Plus>>

\* C19: commands are never pipelined: a command frame is sent only when every
\* frame sent before it in the operation has had its acknowledgement, its
\* whole response with the two checksum bytes and the client's '+'; the
\* client's '+' is sent with the inbound stream read up to the second
\* checksum byte of the response and no further, the bytes taken in order.
C19_NeverPipelined ==
    [][/\ SendsFrame =>
              /\ pc = "send"
              /\ rx = <<>>
              /\ FramesSent(sent_packets) = PlusSent(sent_packets)
              /\ sent_packets # <<>> => sent_packets[Len(sent_packets)] = <<Plus>>
       /\ Answered => (Shaped(rx) /\ recv_buffer' = recv_buffer)
       /\ (Len(rx') > Len(rx) /\ recv_buffer # <<>>) =>
              rx' \o recv_buffer' = rx \o recv_buffer]_vars

\* a flash_write of two chunks has returned Ok: two frames, each followed by
\* the client's '+'
C19_Witness ==
    /\ op = "flash_write"
    /\ pc = "done"
    /\ result.tag = "Ok"
    /\ Len(sent_packets) = 4
    /\ sent_packets[2] = <<Plus>>
    /\ sent_packets[3][1] = Dollar
    /\ sent_packets[4] = <<Plus>>

\* C20: the calls of the host's threads on the Agdi instance are serialized
\* by its mutex: at most one thread is inside a call, which is the holder of
\* the mutex; a download runs only for the holder, and every report, fetch,
\* frame and return of the download is the holder's.
C20_OneDownloadAtATime ==
    /\ Cardinality({t \in Threads : th[t] = "in"}) <= 1
    /\ \A t \in Threads : th[t] = "in" <=> holder = t
    /\ a_pc # "idle" => holder # 0
    /\ \A i \in 1..Len(Events) : Events[i].by = holder

\* a thread waits in lock() while the other one's download has sent its
\* vFlashWrite
C20_Witness ==
    /\ th[1] = "in"
    /\ th[2] = "wait"
    /\ a_pc = "write"
    /\ pc = "ack"
    /\ Count(Events, "Write") = 1

\* the block size of each open flash element of the document, in its order:
\* the number in the text of its child property named blocksize, None when
\* it has no such child or the text is no number; cur is <<>> outside a flash
\* element and holds the block size found so far inside one
RECURSIVE BlocksizeChildren(_, _, _)
BlocksizeChildren(evs, i, cur) ==
    IF i > Len(evs) THEN <<>>
    ELSE LET e == evs[i]
         IN  IF e.k = "Start" /\ e.name = "memory"
             THEN BlocksizeChildren(evs, i + 1,
                      IF AttrValue(e.attrs, "type") = <<102, 108, 97, 115, 104>>
                      THEN <<(<<>>)>> ELSE cur)
             ELSE IF e.k = "Text" /\ cur # <<>> /\ i > 1 /\ IsBlocksizeTag(evs[i - 1])
                     /\ IsHexNumber(e.txt)
             THEN BlocksizeChildren(evs, i + 1, <<(<<parse_hex_u64(e.txt).val>>)>>)
             ELSE IF e.k = "End" /\ e.name = "memory" /\ cur # <<>>
             THEN <<cur[1]>> \o BlocksizeChildren(evs, i + 1, <<>>)
             ELSE BlocksizeChildren(evs, i + 1, cur)

\* C23: a returned region has blocksize Some(v) exactly when its memory
\* element has a child property named blocksize whose text is the hexadecimal
\* number v, and None otherwise; the text of another child never sets or
\* changes it.
C23_BlocksizeOnlyFromItsProperty ==
    (Parsed /\ result.tag = "Ok") =>
        [i \in 1..Len(result.val) |-> result.val[i].blocksize]
            = BlocksizeChildren(ReadEvents(xml), 1, <<>>)

\* the smallest k with k * d >= n, for d > 0
CeilDiv(n, d) == (n + d - 1) \div d

\* C25: for every data and every chunk size, 0 included, flash_write against
\* a peer that answers OK terminates: every further vFlashWrite starts at a
\* larger offset of data than the one before it; it sends at most
\* ceil(len(data) / chunk_size) commands, and none when data is empty.
C25_TerminatesWithinCeilCommands ==
    [][op' = "flash_write" =>
          /\ fw'.data = <<>> => fw_log' = <<>>
          /\ fw'.chunk > 0 => Len(fw_log') <= CeilDiv(Len(fw'.data), fw'.chunk)
          /\ (op = "flash_write" /\ Len(fw_log') > Len(fw_log)) =>
                 /\ payload = OK
                 /\ fw'.offset > fw.offset]_vars

\* the first event of kind k, and the first return of the call name
FirstOf(evs, k) == evs[CHOOSE i \in 1..Len(evs) : evs[i].e = k /\ \A j \in 1..(i - 1) : evs[j].e # k]
MapReturned(evs) == \E i \in 1..Len(evs) : evs[i].e = "Ret" /\ evs[i].job = "get_flash_info"
FirstRegion(evs) ==
    evs[CHOOSE i \in 1..Len(evs) : evs[i].e = "Ret" /\ evs[i].job = "get_flash_info"].res.val[1]

\* the block size of a region as a number: its blocksize, 1024 when absent
BlockOf(region) ==
    IF region.blocksize = <<>> THEN 1024 ELSE NibblesValue(region.blocksize[1])

\* the smallest multiple of b that is total or more
RoundedUp(total, b) == CeilDiv(total, b) * b

\* C21: when the first segment is not empty a vFlashErase is sent: it starts
\* at the segment's start address and its length is the smallest multiple of
\* the block size that is the segment's total size or more, the block size
\* being the first region's blocksize or 1024; for every block size, powers of
\* two or not.
C21_EraseLengthRoundedToBlock ==
    /\ \A j \in 1..Len(Events) :
           Symbol(Events[j]) = "Erase" =>
               LET seg == FirstOf(Events, "Fetch").seg
                   b   == BlockOf(FirstRegion(Events))
               IN  /\ EraseStart(Events[j].frame) = seg.start
                   /\ b > 0
                   /\ EraseLength(Events[j].frame) = ToU32(RoundedUp(seg.act_size, b))
    /\ ~(a_pc = "info" /\ pc = "panicked" /\ MapReturned(Events))

\* the bytes of the segments fetched before event i
RECURSIVE WrittenBefore(_, _)
WrittenBefore(evs, i) ==
    IF i <= 1 THEN 0
    ELSE WrittenBefore(evs, i - 1)
         + (IF evs[i - 1].e = "Fetch" THEN Len(evs[i - 1].seg.data) ELSE 0)

\* the segment of the last fetch before event i
FetchedBefore(evs, i) ==
    evs[CHOOSE j \in 1..(i - 1) :
            evs[j].e = "Fetch" /\ \A k \in (j + 1)..(i - 1) : evs[k].e # "Fetch"].seg

\* C22: after each segment is written the SetPos report carries
\* floor(W * 100 / T), W the bytes of all segments written so far and T the
\* segment's total size; the computation does not fail and the position is
\* within 0..100.
C22_SetPosIsPercentWritten ==
    /\ \A i \in 1..Len(Events) :
           (Events[i].e = "Report" /\ Events[i].job = "SetPos") =>
               LET w == WrittenBefore(Events, i)
                   t == FetchedBefore(Events, i).act_size
               IN  /\ t > 0
                   /\ Events[i].pos = (w * 100) \div t
                   /\ Events[i].pos \in 0..100
    /\ ~(a_pc = "write" /\ pc = "panicked" /\ a_log[Len(a_log)].e = "Ret"
           /\ a_log[Len(a_log)].res.tag = "Ok")

\* C24: while no callback is installed every progress report and segment
\* fetch returns 0 without calling the host, and a download started in that
\* state reads no segment through the null pointer it got: it ends with a
\* status, not with a read of memory that is not a FlashParm.
C24_NoCallbackIsHarmless ==
    p_callback = "None" =>
        /\ \A i \in 1..Len(Events) : ~Events[i].host
        /\ \A i \in 1..Len(Events) : Events[i].e # "Fetch"
        /\ pc # "crashed"

====
